---- MODULE Spec2Model ----
(***************************************************************************)
(* Model of the crypto-portfolio-tracker chain handlers and test page.     *)
(*                                                                         *)
(*   Spec      one call of a handler's getAllAssets (BitcoinHandler,       *)
(*             EthereumHandler or PulsechainHandler), stepped at its       *)
(*             suspension points, against an arbitrary upstream.           *)
(*   SpecPage  the test page (TestPage): the three per-chain fetches, the  *)
(*             all-chains fetch and the React state they write.            *)
(*   SpecTwice two calls of getAllAssets against an unchanged upstream.    *)
(*   SpecRelay the content relay (GET /content/[id]); SpecRelayLive with   *)
(*             the timer of its abort signal.                              *)
(*   SpecCalc  the synchronous functions, each applied to one argument.    *)
(*   SpecOverlap  the test page with the start order of fetches recorded.  *)
(*                                                                         *)
(* Strings of the program are sequences of one-character strings, so that  *)
(* the address patterns are matched character by character.                *)
(***************************************************************************)
EXTENDS Integers, Sequences, FiniteSets, TLC

VARIABLES
    chain,          \* which handler is called: CHAIN_NAME
    address,        \* the address argument of the call
    apiKey,         \* process.env.NEXT_PUBLIC_ALCHEMY_API_KEY
    pc,             \* position of the call
    requests,       \* outbound requests issued so far, in order
    events,         \* sub-fetch invocations and returns, in order
    nativeResult,   \* getAllAssets: btcResult / ethResult / plsResult
    ordLog,         \* getOrdinals: the indexer attempts that have finished
    ordinals,       \* getOrdinals: const ordinals
    tokensResult,   \* getAllAssets: tokensResult
    tokenIdx,       \* getTokenBalances: position in POPULAR_TOKENS
    assets,         \* getTokenBalances: const assets
    extraResult,    \* getAllAssets: ordinalsResult / nftsResult / stakesResult
    allAssets,      \* getAllAssets: const allAssets
    result,         \* the APIResponse the call resolved to
    answers,        \* the upstream answers this call has received, each
                    \* with the request it answers, in order
    first,          \* an earlier call for the same address: the answers it
                    \* received and the APIResponse it resolved to
    ethAssets,      \* TestPage state
    plsAssets,
    btcAssets,
    isLoading,
    error,
    testEthWallet,  \* process.env.NEXT_PUBLIC_TEST_ETH_WALLET is set
    testBtcWallet,  \* process.env.NEXT_PUBLIC_TEST_BTC_WALLET is set
    inflight,       \* fetches of the page awaiting their handler
    batch,          \* fetches the running fetchAllChains still awaits
    started,        \* number of fetches started (bounds the run)
    history,        \* per chain, the latest fetch that finished: its outcome,
                    \* the list it delivered, whether fetchAllChains made it
    newest,         \* per chain, of the fetches that finished the one that
                    \* was started last: its start number, outcome and list
    relay,          \* ContentRelay: per request received, its position, the
                    \* upstream requests it made and the response it gave
    calc            \* one application of a synchronous function of the
                    \* program: the function, its argument and its value

handlerVars == <<chain, address, apiKey, pc, requests, events, nativeResult, ordLog,
                 ordinals, tokensResult, tokenIdx, assets, extraResult, allAssets,
                 result, answers, first>>
pageVars == <<ethAssets, plsAssets, btcAssets, isLoading, error, testEthWallet,
              testBtcWallet, inflight, batch, started, history, newest>>
vars == <<chain, address, apiKey, pc, requests, events, nativeResult, ordLog,
          ordinals, tokensResult, tokenIdx, assets, extraResult, allAssets, result,
          answers, first,
          ethAssets, plsAssets, btcAssets, isLoading, error, testEthWallet,
          testBtcWallet, inflight, batch, started, history, newest, relay, calc>>

-----------------------------------------------------------------------------
(* Bounds of the model.                                                    *)

\* longest list of raw entries an indexer or NFT provider answers with
MaxItems == 2
\* fetches the page starts in one run
MaxFetches == 3
\* requests the content relay receives in one run
MaxRelayRequests == 1

-----------------------------------------------------------------------------
(* Characters and the address patterns (bitcoin.ts ADDRESS_PATTERNS).      *)

Digits == {"0", "1", "2", "3", "4", "5", "6", "7", "8", "9"}
Lower == {"a", "b", "c", "d", "e", "f", "g", "h", "i", "j", "k", "l", "m",
          "n", "o", "p", "q", "r", "s", "t", "u", "v", "w", "x", "y", "z"}
Upper == {"A", "B", "C", "D", "E", "F", "G", "H", "I", "J", "K", "L", "M",
          "N", "O", "P", "Q", "R", "S", "T", "U", "V", "W", "X", "Y", "Z"}

\* [a-km-zA-HJ-NP-Z1-9]
Base58Chars == (Lower \ {"l"}) \cup (Upper \ {"I", "O"}) \cup (Digits \ {"0"})
\* [a-z0-9]
Bech32Chars == Lower \cup Digits

\* s starts with the literal p and continues with n characters of class cls,
\* lo <= n <= hi, up to its end:  /^p[cls]{lo,hi}$/
MatchesPattern(s, p, cls, lo, hi) ==
    /\ Len(s) >= Len(p)
    /\ SubSeq(s, 1, Len(p)) = p
    /\ Len(s) - Len(p) >= lo
    /\ Len(s) - Len(p) <= hi
    /\ \A i \in (Len(p) + 1)..Len(s) : s[i] \in cls

\* /^[13][a-km-zA-HJ-NP-Z1-9]{25,34}$/
LegacyPattern(s) ==
    \/ MatchesPattern(s, <<"1">>, Base58Chars, 25, 34)
    \/ MatchesPattern(s, <<"3">>, Base58Chars, 25, 34)

\* /^bc1[a-z0-9]{39,59}$/
SegwitPattern(s) == MatchesPattern(s, <<"b", "c", "1">>, Bech32Chars, 39, 59)

\* /^bc1p[a-z0-9]{58}$/
TaprootPattern(s) == MatchesPattern(s, <<"b", "c", "1", "p">>, Bech32Chars, 58, 58)

validateBitcoinAddressLegacyOnly(s) == LegacyPattern(s)

validateBitcoinAddress(s) ==
    LegacyPattern(s) \/ SegwitPattern(s) \/ TaprootPattern(s)

getAddressType(s) ==
    IF LegacyPattern(s) THEN "Legacy"
    ELSE IF SegwitPattern(s) THEN "SegWit"
    ELSE IF TaprootPattern(s) THEN "Taproot"
    ELSE "Unknown"

\* the string made of prefix p followed by n copies of the character c
MkAddr(p, c, n) == p \o [i \in 1..n |-> c]

\* Address arguments tried: each pattern at and around its length limits and
\* with a character outside its class.
BitcoinAddresses ==
    { MkAddr(<<"1">>, "a", 25), MkAddr(<<"3">>, "Z", 34),
      MkAddr(<<"1">>, "a", 24), MkAddr(<<"3">>, "a", 35),
      MkAddr(<<"1">>, "0", 30), MkAddr(<<"1">>, "l", 30),
      MkAddr(<<"2">>, "a", 30),
      MkAddr(<<"b", "c", "1">>, "q", 39), MkAddr(<<"b", "c", "1">>, "0", 59),
      MkAddr(<<"b", "c", "1">>, "q", 38), MkAddr(<<"b", "c", "1">>, "q", 60),
      MkAddr(<<"b", "c", "1">>, "Q", 42),
      MkAddr(<<"b", "c", "1", "p">>, "q", 58),
      MkAddr(<<"b", "c", "1", "p">>, "q", 59),
      MkAddr(<<"B", "C", "1">>, "q", 39),
      <<>> }

EvmAddresses == { <<"0", "x", "a">>, <<"0", "x", "b">> }

-----------------------------------------------------------------------------
(* Values shared by the handlers.                                          *)

\* APIResponse<T> (types/index.ts): data and error are optional members
Success(d) == [success |-> TRUE, data |-> d]
FailureCarriesData(e) == [success |-> FALSE, error |-> e, data |-> <<>>]
Failure(e) == [success |-> FALSE, error |-> e]
\* a result variable before its call has returned
NoResult == [pending |-> TRUE]

Resolved(r) == "success" \in DOMAIN r
\* the guard  r.success && r.data  of getAllAssets and of the page
SuccessWithData(r) == Resolved(r) /\ r.success /\ "data" \in DOMAIN r

DigitChar(d) == <<"0", "1", "2", "3", "4", "5", "6", "7", "8", "9">>[d + 1]

RECURSIVE NatToString(_)
NatToString(n) ==
    IF n < 10 THEN <<DigitChar(n)>>
    ELSE NatToString(n \div 10) \o <<DigitChar(n % 10)>>

\* Number.prototype.toString of an integer
NumberToString(n) == IF n < 0 THEN <<"-">> \o NatToString(-n) ELSE NatToString(n)

\* the k low decimal digits of n, zero padded
RECURSIVE LowDigits(_, _)
LowDigits(n, k) ==
    IF k = 0 THEN <<>> ELSE LowDigits(n \div 10, k - 1) \o <<DigitChar(n % 10)>>

SatoshisToFixedUnpadded(sats) ==
    NatToString(sats \div 100000000) \o <<".">> \o NatToString(sats % 100000000)

\* (sats / 100000000).toFixed(8)
SatoshisToFixed8(sats) ==
    LET m == IF sats < 0 THEN -sats ELSE sats
    IN  (IF sats < 0 THEN <<"-">> ELSE <<>>)
            \o NatToString(m \div 100000000) \o <<".">> \o LowDigits(m % 100000000, 8)

-----------------------------------------------------------------------------
(* Upstream answers.  A fetch rejects ("neterr"), answers with a           *)
(* non-success status ("status"), answers with a body that is not JSON     *)
(* ("badjson") or answers with a JSON value ("json") of some shape.        *)

\* funded_txo_sum and spent_txo_sum values the balance endpoint answers with
FundedSums == {150000000, 2100000000}
SatoshiSums == {0, 1, 50000000, 149999999, 150000000}

\* shapes: "null" the value null, "nostats" an object without chain_stats,
\* "emptystats" chain_stats without the two sums, "stats" the two sums
BalanceResponses ==
    { [kind |-> k, shape |-> "null", funded |-> 0, spent |-> 0] :
          k \in {"neterr", "status", "badjson"} }
    \cup { [kind |-> "json", shape |-> s, funded |-> 0, spent |-> 0] :
          s \in {"null", "nostats", "emptystats"} }
    \cup { [kind |-> "json", shape |-> "stats", funded |-> f, spent |-> p] :
          f \in FundedSums, p \in SatoshiSums }

\* a raw list entry: null, or an inscription / token object
NullItem == [id |-> "null"]
InscriptionIds == {"i1", "i2"}
RawItems == {NullItem} \cup { [id |-> i] : i \in InscriptionIds }

RECURSIVE SeqsUpTo(_, _)
SeqsUpTo(S, n) ==
    IF n = 0 THEN { <<>> }
    ELSE LET shorter == SeqsUpTo(S, n - 1)
         IN  shorter \cup { Append(q, x) : q \in { r \in shorter : Len(r) = n - 1 }, x \in S }

ItemLists == SeqsUpTo(RawItems, MaxItems)

\* shapes: "null" the value null, "object" an object without a results
\* array, "results" an object whose results member is the list, "array" the
\* list itself
IndexerResponses ==
    { [kind |-> k, shape |-> "null", items |-> <<>>] :
          k \in {"neterr", "status", "badjson"} }
    \cup { [kind |-> "json", shape |-> s, items |-> <<>>] : s \in {"null", "object"} }
    \cup { [kind |-> "json", shape |-> s, items |-> l] :
          s \in {"results", "array"}, l \in ItemLists }

-----------------------------------------------------------------------------
(* BitcoinHandler.                                                         *)

IndexersSwapped ==
    << [name |-> "MagicEden API", parseFunction |-> "parseMagicEdenOrdinals"],
       [name |-> "Hiro API", parseFunction |-> "parseHiroOrdinals"] >>

\* const indexers of getOrdinals
Indexers ==
    << [name |-> "Hiro API", parseFunction |-> "parseHiroOrdinals"],
       [name |-> "MagicEden API", parseFunction |-> "parseMagicEdenOrdinals"] >>

BtcNativeAsset(addr, sats, formatted) ==
    [id |-> <<"btc_", addr, "_native">>, type |-> "native", chain |-> "bitcoin",
     walletAddress |-> addr, name |-> "Bitcoin", symbol |-> "BTC", decimals |-> 8,
     balance |-> sats, balanceFormatted |-> formatted]

\* what getBTCBalance resolves to once the balance endpoint has answered r
getBTCBalanceResponse(addr, r) ==
    IF r.kind = "neterr"
    THEN Failure(<<"Failed to fetch BTC balance: ", "TypeError: fetch failed">>)
    ELSE IF r.kind = "status"
    THEN Failure(<<"Failed to fetch BTC balance: ", "Error: Bitcoin API error">>)
    ELSE IF r.kind = "badjson"
    THEN Failure(<<"Failed to fetch BTC balance: ", "SyntaxError">>)
    ELSE IF r.shape \in {"null", "nostats"}
    THEN Failure(<<"Failed to fetch BTC balance: ", "TypeError">>)
    ELSE IF r.shape = "emptystats"
    THEN Success(BtcNativeAsset(addr, <<"N", "a", "N">>, <<"N", "a", "N">>))
    ELSE Success(BtcNativeAsset(addr, NumberToString(r.funded - r.spent),
                                SatoshisToFixed8(r.funded - r.spent)))

OrdinalAsset(addr, item) ==
    [id |-> <<"btc_", addr, "_ordinal_", item.id>>, type |-> "ordinal",
     chain |-> "bitcoin", walletAddress |-> addr, symbol |-> "ORD",
     balance |-> <<"1">>, balanceFormatted |-> <<"1">>,
     tokenId |-> item.id, inscriptionId |-> item.id]

\* the entries of a raw list that build an asset; a null entry throws inside
\* the per-entry try and is skipped
RECURSIVE ParseItems(_, _)
ParseItems(items, addr) ==
    IF items = <<>> THEN <<>>
    ELSE (IF Head(items) = NullItem THEN <<>> ELSE <<OrdinalAsset(addr, Head(items))>>)
             \o ParseItems(Tail(items), addr)

\* [threw, list]: threw when the parser itself raises
parseHiroOrdinals(data, addr) ==
    IF data.shape = "null" THEN [threw |-> TRUE, list |-> <<>>]
    ELSE IF data.shape # "results" THEN [threw |-> FALSE, list |-> <<>>]
    ELSE [threw |-> FALSE, list |-> ParseItems(data.items, addr)]

parseMagicEdenOrdinals(data, addr) ==
    IF data.shape # "array" THEN [threw |-> FALSE, list |-> <<>>]
    ELSE [threw |-> FALSE, list |-> ParseItems(data.items, addr)]

ParseWith(parseFunction, data, addr) ==
    IF parseFunction = "parseHiroOrdinals" THEN parseHiroOrdinals(data, addr)
    ELSE parseMagicEdenOrdinals(data, addr)

\* one pass of the for loop body for indexer i answered by r: the parsed
\* list, or <<>> with skipped set when the pass ends in continue / catch
IndexerAttempt(i, r, addr) ==
    IF r.kind # "json" THEN [skipped |-> TRUE, list |-> <<>>]
    ELSE LET p == ParseWith(Indexers[i].parseFunction, r, addr)
         IN  [skipped |-> p.threw, list |-> p.list]

BreaksNever(parsedOrdinals) == FALSE
BreaksAlways(parsedOrdinals) == TRUE

\* if (parsedOrdinals.length > 0) { ...; break }
Breaks(parsedOrdinals) == Len(parsedOrdinals) > 0

getOrdinalsReturnFailsWhenEmpty(list) ==
    IF list = <<>> THEN Failure(<<"Failed to fetch Ordinals: ", "none">>) ELSE Success(list)

\* the return after the loop
getOrdinalsReturn(list) == Success(list)

IndexerRequest(i, addr) == [to |-> Indexers[i].name, addr |-> addr]

-----------------------------------------------------------------------------
(* EthereumHandler and PulsechainHandler.                                  *)

EvmChains == {"ethereum", "pulsechain"}

\* POPULAR_TOKENS of the handler of chain c
PopularTokens(c) ==
    IF c = "ethereum"
    THEN << [address |-> "0x2b591e99afE9f32eAA6214f7B7629768c40Eeb39",
             symbol |-> "HEX", name |-> "HEX", decimals |-> 8],
            [address |-> "0xA0b86991c6218b36c1d19D4a2e9Eb0cE3606eB48",
             symbol |-> "USDC", name |-> "USD Coin", decimals |-> 6],
            [address |-> "0xdAC17F958D2ee523a2206206994597C13D831ec7",
             symbol |-> "USDT", name |-> "Tether USD", decimals |-> 6],
            [address |-> "0x514910771AF9Ca656af840dff83E8264EcF986CA",
             symbol |-> "LINK", name |-> "Chainlink", decimals |-> 18] >>
    ELSE << [address |-> "0x2b591e99afE9f32eAA6214f7B7629768c40Eeb39",
             symbol |-> "HEX", name |-> "HEX", decimals |-> 8],
            [address |-> "0xA1077a294dDE1B09bB078844df40758a5D0f9a27",
             symbol |-> "PLSX", name |-> "PulseX", decimals |-> 18],
            [address |-> "0x15D38573d2feeb82e7ad5187aB8c1D52810B1f07",
             symbol |-> "INC", name |-> "Incentive", decimals |-> 18] >>

\* the id prefix, native coin and token standard of chain c
ChainPrefix(c) == IF c = "ethereum" THEN "eth_" ELSE "pls_"
NativeName(c) == IF c = "ethereum" THEN "Ethereum" ELSE "Pulse"
NativeSymbol(c) == IF c = "ethereum" THEN "ETH" ELSE "PLS"
TokenStandard(c) == IF c = "ethereum" THEN "ERC-20" ELSE "PRC-20"

\* s without its trailing "0" characters, keeping at least one character
RECURSIVE StripTrailingZeros(_)
StripTrailingZeros(s) ==
    IF Len(s) > 1 /\ s[Len(s)] = "0"
    THEN StripTrailingZeros(SubSeq(s, 1, Len(s) - 1)) ELSE s

formatUnitsSixPlaces(n, d) ==
    LET digits == NatToString(n)
        padded == IF Len(digits) <= d
                  THEN [i \in 1..(d + 1 - Len(digits)) |-> "0"] \o digits
                  ELSE digits
        whole == SubSeq(padded, 1, Len(padded) - d)
        frac == SubSeq(padded, Len(padded) - d + 1, Len(padded))
    IN  whole \o <<".">> \o StripTrailingZeros(SubSeq(frac, 1, IF d < 6 THEN d ELSE 6))

\* ethers.formatUnits(n, d) for n >= 0 and d > 0
formatUnits(n, d) ==
    LET digits == NatToString(n)
        padded == IF Len(digits) <= d
                  THEN [i \in 1..(d + 1 - Len(digits)) |-> "0"] \o digits
                  ELSE digits
        whole == SubSeq(padded, 1, Len(padded) - d)
        frac == SubSeq(padded, Len(padded) - d + 1, Len(padded))
    IN  whole \o <<".">> \o StripTrailingZeros(frac)

\* ethers.formatEther
formatEther(n) == formatUnits(n, 18)

\* balances the RPC node answers with (base units)
RpcBalances == {0, 1500000}

\* provider.getBalance / contract.balanceOf: rejects, or resolves to a balance
RpcResponses ==
    { [kind |-> "error", balance |-> 0] }
    \cup { [kind |-> "balance", balance |-> b] : b \in RpcBalances }

NativeAsset(c, addr, bal) ==
    [id |-> <<ChainPrefix(c), addr, "_native">>, type |-> "native", chain |-> c,
     walletAddress |-> addr, name |-> NativeName(c), symbol |-> NativeSymbol(c),
     decimals |-> 18, balance |-> NumberToString(bal),
     balanceFormatted |-> formatEther(bal)]

\* what getETHBalance / getPLSBalance resolves to once the node has answered r
getNativeBalanceResponse(c, addr, r) ==
    IF r.kind = "error"
    THEN Failure(<<(IF c = "ethereum" THEN "Failed to fetch ETH balance: "
                    ELSE "Failed to fetch PLS balance: "), "Error">>)
    ELSE Success(NativeAsset(c, addr, r.balance))

TokenAsset(c, addr, token, bal) ==
    [id |-> <<ChainPrefix(c), addr, "_", token.address>>, type |-> "token",
     chain |-> c, walletAddress |-> addr, name |-> token.name,
     symbol |-> token.symbol, decimals |-> token.decimals,
     balance |-> NumberToString(bal),
     balanceFormatted |-> formatUnits(bal, token.decimals),
     contractAddress |-> token.address, tokenStandard |-> TokenStandard(c)]

TokenPassIncludesZero(c, addr, token, r) ==
    IF r.kind = "balance" THEN <<TokenAsset(c, addr, token, r.balance)>> ELSE <<>>

\* one pass of the token loop: the assets it pushes
TokenPass(c, addr, token, r) ==
    IF r.kind = "balance" /\ r.balance > 0
    THEN <<TokenAsset(c, addr, token, r.balance)>>
    ELSE <<>>

\* a raw NFT entry of the provider: null, or an object with contract and id
NftItems ==
    {NullItem} \cup { [id |-> i, contract |-> "0xc0ffee"] : i \in {"1", "2"} }

\* the provider's answer: the fetch rejects, or a response whose status is
\* ok or not and whose body is not JSON or is JSON of shape "null", "object"
\* (no ownedNfts member), "notarray" (ownedNfts is not a list) or "owned"
NftResponses ==
    { [kind |-> "neterr", ok |-> FALSE, shape |-> "null", items |-> <<>>] }
    \cup { [kind |-> "badjson", ok |-> o, shape |-> "null", items |-> <<>>] :
          o \in BOOLEAN }
    \cup { [kind |-> "json", ok |-> o, shape |-> s, items |-> <<>>] :
          o \in BOOLEAN, s \in {"null", "object", "notarray"} }
    \cup { [kind |-> "json", ok |-> TRUE, shape |-> "owned", items |-> l] :
          l \in SeqsUpTo(NftItems, MaxItems) }

NftAssetIdWithoutContract(addr, nft) ==
    [id |-> <<"eth_", addr, "_", nft.id>>, type |-> "nft",
     chain |-> "ethereum", walletAddress |-> addr, symbol |-> "NFT",
     balance |-> <<"1">>, balanceFormatted |-> <<"1">>,
     contractAddress |-> nft.contract, tokenId |-> nft.id]

NftAsset(addr, nft) ==
    [id |-> <<"eth_", addr, "_", nft.contract, "_", nft.id>>, type |-> "nft",
     chain |-> "ethereum", walletAddress |-> addr, symbol |-> "NFT",
     balance |-> <<"1">>, balanceFormatted |-> <<"1">>,
     contractAddress |-> nft.contract, tokenId |-> nft.id]

\* what getNFTs resolves to once the provider has answered r
getNFTsResponse(addr, r) ==
    IF r.kind = "neterr" THEN Failure(<<"Failed to fetch NFTs: ", "TypeError: fetch failed">>)
    ELSE IF r.kind = "badjson" THEN Failure(<<"Failed to fetch NFTs: ", "SyntaxError">>)
    ELSE IF r.shape = "null" THEN Failure(<<"Failed to fetch NFTs: ", "TypeError">>)
    ELSE IF r.shape = "object" THEN Success(<<>>)
    ELSE IF r.shape = "notarray" THEN Failure(<<"Failed to fetch NFTs: ", "TypeError">>)
    ELSE IF \E i \in 1..Len(r.items) : r.items[i] = NullItem
    THEN Failure(<<"Failed to fetch NFTs: ", "TypeError">>)
    ELSE Success([i \in 1..Len(r.items) |-> NftAsset(addr, r.items[i])])

\* A URL is its scheme, its host and its path; a path is the parts of the
\* template that builds it.  NoUrl is a member that is absent.
Url(scheme, host, path) == [scheme |-> scheme, host |-> host, path |-> path]
NoUrl == Url("none", "", <<>>)

\* values of NEXT_PUBLIC_ALCHEMY_API_KEY: unset, the placeholder, a key
ApiKeys == {"", "your_alchemy_key_here", "k"}

NoProviderKeyPlaceholderOnly(key) == key = "your_alchemy_key_here"

\* if (!process.env.NEXT_PUBLIC_ALCHEMY_API_KEY)
NoProviderKey(key) == key = ""

\* EthereumHandler.RPC_URL: the provider's endpoint with the key, or the
\* public node
RPC_URL(key) ==
    IF key # "" /\ key # "your_alchemy_key_here"
    THEN Url("https", "eth-mainnet.g.alchemy.com", <<"/v2/", key>>)
    ELSE Url("https", "ethereum.publicnode.com", <<>>)

-----------------------------------------------------------------------------
(* One call of getAllAssets.                                               *)

Request(to, target, addr) == [to |-> to, target |-> target, addr |-> addr]
Answer(q, r) == [request |-> q, response |-> r]

\* the request awaited: the handlers await one request at a time
Awaited == requests[Len(requests)]

\* no earlier call
NoCall == [answers |-> <<>>, result |-> NoResult]

\* the upstream has not changed since the earlier call: a request that call
\* made is answered now as it was answered then
SameUpstream(q, r) ==
    \A i \in 1..Len(first.answers) :
        first.answers[i].request = q => first.answers[i].response = r

\* no request of the relay has been received
RelayIdle == <<>>
\* no function is being applied
CalcIdle == [fn |-> "none"]
Call(name) == <<"call", name>>
Return(name) == <<"return", name>>

\* no fetch of a chain has finished
NoFetch == [outcome |-> "none", data |-> <<>>, all |-> FALSE]
\* no fetch of any chain has finished
NoneFinished ==
    [c \in {"ethereum", "pulsechain", "bitcoin"} |->
        [n |-> 0, outcome |-> "none", data |-> <<>>]]

\* the page variables while a handler call is studied on its own
PageIdle ==
    /\ ethAssets = <<>> /\ plsAssets = <<>> /\ btcAssets = <<>>
    /\ isLoading = FALSE /\ error = <<>>
    /\ testEthWallet = FALSE /\ testBtcWallet = FALSE
    /\ inflight = {} /\ batch = {} /\ started = 0
    /\ history = [c \in {"ethereum", "pulsechain", "bitcoin"} |-> NoFetch]
    /\ newest = NoneFinished

Init ==
    /\ chain \in {"bitcoin"} \cup EvmChains
    /\ address \in IF chain = "bitcoin" THEN BitcoinAddresses ELSE EvmAddresses
    /\ apiKey \in IF chain = "ethereum" THEN ApiKeys ELSE {""}
    /\ pc = "start"
    /\ requests = <<>> /\ events = <<>>
    /\ nativeResult = NoResult /\ tokensResult = NoResult /\ extraResult = NoResult
    /\ ordLog = <<>> /\ ordinals = <<>>
    /\ tokenIdx = 0 /\ assets = <<>>
    /\ allAssets = <<>> /\ result = NoResult
    /\ answers = <<>> /\ first = NoCall
    /\ PageIdle
    /\ relay = RelayIdle
    /\ calc = CalcIdle

PushOneFirst(all, r) == IF SuccessWithData(r) THEN <<r.data>> \o all ELSE all

\* if (r.success && r.data) allAssets.push(r.data)
PushOne(all, r) == IF SuccessWithData(r) THEN Append(all, r.data) ELSE all

PushAllFirst(all, r) == IF SuccessWithData(r) THEN r.data \o all ELSE all

\* if (r.success && r.data) allAssets.push(...r.data)
PushAll(all, r) == IF SuccessWithData(r) THEN all \o r.data ELSE all

\* BitcoinHandler.getAllAssets up to the first await: getBTCBalance validates
\* the address and either throws into its catch or fetches the balance
BtcGetAllAssets ==
    /\ pc = "start" /\ chain = "bitcoin"
    /\ IF ~validateBitcoinAddress(address)
       THEN /\ nativeResult' = Failure(<<"Failed to fetch BTC balance: ",
                                         "Error: Invalid Bitcoin address format">>)
            /\ events' = events \o <<Call("balance"), Return("balance")>>
            /\ pc' = "balance_returned"
            /\ UNCHANGED requests
       ELSE /\ requests' = Append(requests, Request("blockstream", "", address))
            /\ events' = Append(events, Call("balance"))
            /\ pc' = "balance_wait"
            /\ UNCHANGED nativeResult
    /\ UNCHANGED <<chain, address, apiKey, ordLog, ordinals, tokensResult, tokenIdx,
                   assets, extraResult, allAssets, result, answers>>
    /\ UNCHANGED <<first, pageVars, relay, calc>>

\* the balance endpoint answers; getBTCBalance returns
BtcBalanceResponse ==
    /\ pc = "balance_wait"
    /\ \E r \in BalanceResponses :
          /\ SameUpstream(Awaited, r)
          /\ answers' = Append(answers, Answer(Awaited, r))
          /\ nativeResult' = getBTCBalanceResponse(address, r)
    /\ events' = Append(events, Return("balance"))
    /\ pc' = "balance_returned"
    /\ UNCHANGED <<chain, address, apiKey, requests, ordLog, ordinals, tokensResult,
                   tokenIdx, assets, extraResult, allAssets, result>>
    /\ UNCHANGED <<first, pageVars, relay, calc>>

\* getAllAssets resumes with btcResult and calls getOrdinals, which queries
\* the first indexer
BtcGetOrdinals ==
    /\ pc = "balance_returned"
    /\ allAssets' = PushOne(allAssets, nativeResult)
    /\ requests' = Append(requests, IndexerRequest(1, address))
    /\ events' = Append(events, Call("ordinals"))
    /\ pc' = "indexer_wait"
    /\ UNCHANGED <<chain, address, apiKey, nativeResult, ordLog, ordinals,
                   tokensResult, tokenIdx, assets, extraResult, result, answers>>
    /\ UNCHANGED <<first, pageVars, relay, calc>>

\* the indexer queried last answers: one pass of the loop body, then either
\* the next indexer is queried or the loop ends and getOrdinals returns
BtcIndexerResponse ==
    /\ pc = "indexer_wait"
    /\ \E r \in IndexerResponses :
          LET i == Len(ordLog) + 1
              a == IndexerAttempt(i, r, address)
              stop == ~a.skipped /\ Breaks(a.list)
              found == IF stop THEN ordinals \o a.list ELSE ordinals
          IN  /\ SameUpstream(Awaited, r)
              /\ answers' = Append(answers, Answer(Awaited, r))
              /\ ordLog' = Append(ordLog, [source |-> Indexers[i].name, response |-> r])
              /\ ordinals' = found
              /\ IF stop \/ i = Len(Indexers)
                 THEN /\ extraResult' = getOrdinalsReturn(found)
                      /\ events' = Append(events, Return("ordinals"))
                      /\ pc' = "ordinals_returned"
                      /\ UNCHANGED requests
                 ELSE /\ requests' = Append(requests, IndexerRequest(i + 1, address))
                      /\ UNCHANGED <<extraResult, events, pc>>
    /\ UNCHANGED <<chain, address, apiKey, nativeResult, tokensResult, tokenIdx,
                   assets, allAssets, result>>
    /\ UNCHANGED <<first, pageVars, relay, calc>>

\* getAllAssets resumes with ordinalsResult and returns
BtcReturn ==
    /\ pc = "ordinals_returned"
    /\ allAssets' = PushAll(allAssets, extraResult)
    /\ result' = Success(allAssets')
    /\ pc' = "done"
    /\ UNCHANGED <<chain, address, apiKey, requests, events, nativeResult, ordLog,
                   ordinals, tokensResult, tokenIdx, assets, extraResult, answers>>
    /\ UNCHANGED <<first, pageVars, relay, calc>>

\* EthereumHandler / PulsechainHandler getAllAssets up to the first await:
\* the native balance is requested from the node
EvmGetAllAssets ==
    /\ pc = "start" /\ chain \in EvmChains
    /\ requests' = Append(requests, Request("rpc", "getBalance", address))
    /\ events' = Append(events, Call("native"))
    /\ pc' = "native_wait"
    /\ UNCHANGED <<chain, address, apiKey, nativeResult, ordLog, ordinals,
                   tokensResult, tokenIdx, assets, extraResult, allAssets, result,
                   answers>>
    /\ UNCHANGED <<first, pageVars, relay, calc>>

\* the node answers; the native sub-fetch returns, getAllAssets resumes and
\* calls getTokenBalances, which queries the first token
EvmNativeResponse ==
    /\ pc = "native_wait"
    /\ \E r \in RpcResponses :
          /\ SameUpstream(Awaited, r)
          /\ answers' = Append(answers, Answer(Awaited, r))
          /\ nativeResult' = getNativeBalanceResponse(chain, address, r)
          /\ allAssets' = PushOne(allAssets, nativeResult')
    /\ tokenIdx' = 1
    /\ requests' = Append(requests,
                          Request("rpc", PopularTokens(chain)[1].address, address))
    /\ events' = events \o <<Return("native"), Call("tokens")>>
    /\ pc' = "token_wait"
    /\ UNCHANGED <<chain, address, apiKey, ordLog, ordinals, tokensResult, assets,
                   extraResult, result>>
    /\ UNCHANGED <<first, pageVars, relay, calc>>

\* the third sub-fetch up to its first await, given the list built so far:
\* getNFTs without a provider key and getHEXStakes return at once
ThirdSubFetch(all) ==
    IF chain = "pulsechain"
    THEN /\ extraResult' = Success(<<>>)
         /\ events' = events \o <<Return("tokens"), Call("stakes"), Return("stakes")>>
         /\ allAssets' = PushAll(all, extraResult')
         /\ result' = Success(allAssets')
         /\ pc' = "done"
         /\ UNCHANGED requests
    ELSE IF NoProviderKey(apiKey)
    THEN /\ extraResult' = Success(<<>>)
         /\ events' = events \o <<Return("tokens"), Call("nfts"), Return("nfts")>>
         /\ allAssets' = PushAll(all, extraResult')
         /\ result' = Success(allAssets')
         /\ pc' = "done"
         /\ UNCHANGED requests
    ELSE /\ requests' = Append(requests, Request("alchemy", apiKey, address))
         /\ events' = events \o <<Return("tokens"), Call("nfts")>>
         /\ allAssets' = all
         /\ pc' = "nft_wait"
         /\ UNCHANGED <<extraResult, result>>

\* the node answers the balanceOf of the current token: one pass of the token
\* loop, then either the next token is queried or getTokenBalances returns,
\* getAllAssets resumes and calls the third sub-fetch
EvmTokenResponse ==
    /\ pc = "token_wait"
    /\ \E r \in RpcResponses :
          LET tokens == PopularTokens(chain)
              found == assets \o TokenPass(chain, address, tokens[tokenIdx], r)
          IN  /\ SameUpstream(Awaited, r)
              /\ answers' = Append(answers, Answer(Awaited, r))
              /\ assets' = found
              /\ IF tokenIdx < Len(tokens)
                 THEN /\ tokenIdx' = tokenIdx + 1
                      /\ requests' = Append(requests,
                             Request("rpc", tokens[tokenIdx + 1].address, address))
                      /\ UNCHANGED <<tokensResult, extraResult, events, allAssets,
                                     result, pc>>
                 ELSE /\ tokensResult' = Success(found)
                      /\ ThirdSubFetch(PushAll(allAssets, tokensResult'))
                      /\ UNCHANGED tokenIdx
    /\ UNCHANGED <<chain, address, apiKey, nativeResult, ordLog, ordinals>>
    /\ UNCHANGED <<first, pageVars, relay, calc>>

\* the NFT provider answers; getNFTs returns, getAllAssets resumes and returns
EvmNftResponse ==
    /\ pc = "nft_wait"
    /\ \E r \in NftResponses :
          /\ SameUpstream(Awaited, r)
          /\ answers' = Append(answers, Answer(Awaited, r))
          /\ extraResult' = getNFTsResponse(address, r)
          /\ allAssets' = PushAll(allAssets, extraResult')
    /\ result' = Success(allAssets')
    /\ events' = Append(events, Return("nfts"))
    /\ pc' = "done"
    /\ UNCHANGED <<chain, address, apiKey, requests, nativeResult, ordLog, ordinals,
                   tokensResult, tokenIdx, assets>>
    /\ UNCHANGED <<first, pageVars, relay, calc>>

Next ==
    \/ BtcGetAllAssets
    \/ BtcBalanceResponse
    \/ BtcGetOrdinals
    \/ BtcIndexerResponse
    \/ BtcReturn
    \/ EvmGetAllAssets
    \/ EvmNativeResponse
    \/ EvmTokenResponse
    \/ EvmNftResponse

Spec == Init /\ [][Next]_vars

-----------------------------------------------------------------------------
(* Two calls of getAllAssets for the same address, the second made after   *)
(* the first has returned, against an upstream that does not change.       *)

\* address arguments of the repeated call: a legacy address, a segwit
\* address and one that matches no pattern
RepeatedBitcoinAddresses ==
    { MkAddr(<<"1">>, "a", 25), MkAddr(<<"b", "c", "1">>, "q", 39),
      MkAddr(<<"2">>, "a", 30) }

InitTwice ==
    /\ chain \in {"bitcoin"} \cup EvmChains
    /\ address \in IF chain = "bitcoin" THEN RepeatedBitcoinAddresses
                   ELSE {<<"0", "x", "a">>}
    /\ apiKey \in IF chain = "ethereum" THEN ApiKeys ELSE {""}
    /\ pc = "start"
    /\ requests = <<>> /\ events = <<>>
    /\ nativeResult = NoResult /\ tokensResult = NoResult /\ extraResult = NoResult
    /\ ordLog = <<>> /\ ordinals = <<>>
    /\ tokenIdx = 0 /\ assets = <<>>
    /\ allAssets = <<>> /\ result = NoResult
    /\ answers = <<>> /\ first = NoCall
    /\ PageIdle
    /\ relay = RelayIdle
    /\ calc = CalcIdle

\* the first call has returned and getAllAssets is called again with the
\* same address: every local of the call starts afresh, allAssets from list
CallAgain(list) ==
    /\ pc = "done" /\ first = NoCall
    /\ first' = [answers |-> answers, result |-> result]
    /\ pc' = "start"
    /\ requests' = <<>> /\ events' = <<>> /\ answers' = <<>>
    /\ nativeResult' = NoResult /\ tokensResult' = NoResult /\ extraResult' = NoResult
    /\ ordLog' = <<>> /\ ordinals' = <<>>
    /\ tokenIdx' = 0 /\ assets' = <<>>
    /\ allAssets' = list /\ result' = NoResult
    /\ UNCHANGED <<chain, address, apiKey, pageVars, relay, calc>>

GetAllAssetsAgainKeepingList == CallAgain(allAssets)

\* const allAssets: Asset[] = []  at the entry of the second call
GetAllAssetsAgain == CallAgain(<<>>)

NextTwice ==
    \/ Next
    \/ GetAllAssetsAgain

SpecTwice == InitTwice /\ [][NextTwice]_vars

-----------------------------------------------------------------------------
(* TestPage.  The page is written against the handlers' declared return     *)
(* type, Promise<APIResponse<Asset[]>>, and guards each case of it: the     *)
(* handler resolves with success and a list, resolves with a failure (with  *)
(* or without a message), or rejects.                                       *)

Chains == {"ethereum", "pulsechain", "bitcoin"}

PageAsset(c, k) == [chain |-> c, id |-> k]

\* asset lists a handler of chain c delivers to the page
PageAssetLists(c) == { <<>>, <<PageAsset(c, 1)>>, <<PageAsset(c, 1), PageAsset(c, 2)>> }

HandlerOutcomes(c) ==
    { [kind |-> "resolved", response |-> Success(l)] : l \in PageAssetLists(c) }
    \cup { [kind |-> "resolved",
            response |-> Failure(<<(IF c = "bitcoin"
                                    THEN "Failed to fetch all Bitcoin assets: "
                                    ELSE "Failed to fetch all assets: "), "Error">>)],
           [kind |-> "resolved", response |-> [success |-> FALSE]],
           [kind |-> "rejected", response |-> [success |-> FALSE]] }

Delivered(o) == o.kind = "resolved" /\ SuccessWithData(o.response)

\* the wallet a fetch of chain c needs: testPlsWallet = testEthWallet
HasWallet(c) == IF c = "bitcoin" THEN testBtcWallet ELSE testEthWallet

\* the list state of chain c after its fetch ended with outcome o:
\* setXAssets(result.data) runs only under  result.success && result.data
AssetsAfter(cur, o) == IF Delivered(o) THEN o.response.data ELSE cur

ErrorAfterClearedOnSuccess(cur, c, o) ==
    IF c # "bitcoin" THEN cur
    ELSE IF Delivered(o) THEN <<>>
    ELSE IF o.kind = "rejected" THEN <<"Bitcoin error: ", "Error">>
    ELSE IF "error" \in DOMAIN o.response THEN o.response.error
    ELSE <<"Failed to fetch Bitcoin assets">>

\* the error state after the fetch of chain c ended with outcome o: only
\* fetchBitcoinData calls setError
ErrorAfter(cur, c, o) ==
    IF c # "bitcoin" \/ Delivered(o) THEN cur
    ELSE IF o.kind = "rejected" THEN <<"Bitcoin error: ", "Error">>
    ELSE IF "error" \in DOMAIN o.response THEN o.response.error
    ELSE <<"Failed to fetch Bitcoin assets">>

InitPage ==
    /\ chain = "none" /\ address = <<>> /\ apiKey = "" /\ pc = "idle"
    /\ requests = <<>> /\ events = <<>>
    /\ nativeResult = NoResult /\ tokensResult = NoResult /\ extraResult = NoResult
    /\ ordLog = <<>> /\ ordinals = <<>>
    /\ tokenIdx = 0 /\ assets = <<>>
    /\ allAssets = <<>> /\ result = NoResult
    /\ answers = <<>> /\ first = NoCall
    /\ relay = RelayIdle
    /\ calc = CalcIdle
    /\ ethAssets = <<>> /\ plsAssets = <<>> /\ btcAssets = <<>>
    /\ isLoading = FALSE /\ error = <<>>
    /\ testEthWallet \in BOOLEAN /\ testBtcWallet \in BOOLEAN
    /\ inflight = {} /\ batch = {} /\ started = 0
    /\ history = [c \in Chains |-> NoFetch]
    /\ newest = NoneFinished

\* a click on the button of chain c: fetchEthereumData / fetchPulsechainData /
\* fetchBitcoinData up to the await of getAllAssets.  The button is disabled
\* while loading or without the wallet.
FetchChainData(c) ==
    /\ ~isLoading /\ HasWallet(c)
    /\ started < MaxFetches
    /\ started' = started + 1
    /\ inflight' = inflight \cup {[chain |-> c, n |-> started + 1, all |-> FALSE]}
    /\ UNCHANGED <<ethAssets, plsAssets, btcAssets, isLoading, error, testEthWallet,
                   testBtcWallet, batch, history, newest>>
    /\ UNCHANGED <<handlerVars, relay, calc>>

\* fetchAllChains up to the await of Promise.all, from the mount effect or the
\* button: the three fetch functions are called in turn; one without its
\* wallet returns at once (fetchBitcoinData after setting the error)
FetchAllChains ==
    /\ ~isLoading /\ (testEthWallet \/ testBtcWallet)
    /\ started < MaxFetches
    /\ started' = started + 1
    /\ LET called == { c \in Chains : HasWallet(c) }
       IN  /\ inflight' = inflight \cup
                  { [chain |-> c, n |-> started + 1, all |-> TRUE] : c \in called }
           /\ batch' = called
    /\ isLoading' = TRUE
    /\ error' = IF testBtcWallet THEN <<>>
                ELSE <<"No test BTC wallet found in environment variables">>
    /\ history' = [c \in Chains |-> [history[c] EXCEPT !.all = FALSE]]
    /\ UNCHANGED <<ethAssets, plsAssets, btcAssets, testEthWallet, testBtcWallet, newest>>
    /\ UNCHANGED <<handlerVars, relay, calc>>

\* the handler call of the in-flight fetch f of chain c ends with outcome o:
\* the rest of the fetch function runs, and the finally of fetchAllChains
\* once its last fetch has ended
FetchEnds(c, f, o) ==
    /\ f.chain = c
    /\ inflight' = inflight \ {f}
    /\ ethAssets' = IF c = "ethereum" THEN AssetsAfter(ethAssets, o) ELSE ethAssets
    /\ plsAssets' = IF c = "pulsechain" THEN AssetsAfter(plsAssets, o) ELSE plsAssets
    /\ btcAssets' = IF c = "bitcoin" THEN AssetsAfter(btcAssets, o) ELSE btcAssets
    /\ error' = ErrorAfter(error, c, o)
    /\ batch' = IF f.all THEN batch \ {c} ELSE batch
    /\ isLoading' = IF f.all /\ batch' = {} THEN FALSE ELSE isLoading
    /\ history' = [history EXCEPT ![c] =
                      [outcome |-> IF Delivered(o) THEN "success" ELSE "failure",
                       data |-> IF Delivered(o) THEN o.response.data ELSE <<>>,
                       all |-> f.all]]
    /\ UNCHANGED <<testEthWallet, testBtcWallet, started>>
    /\ UNCHANGED <<handlerVars, relay, calc>>

FetchResolved(c) ==
    \E f \in inflight : \E o \in HandlerOutcomes(c) :
        FetchEnds(c, f, o) /\ UNCHANGED newest

fetchEthereumData == FetchChainData("ethereum")
fetchPulsechainData == FetchChainData("pulsechain")
fetchBitcoinData == FetchChainData("bitcoin")
EthereumResolved == FetchResolved("ethereum")
PulsechainResolved == FetchResolved("pulsechain")
BitcoinResolved == FetchResolved("bitcoin")

NextPage ==
    \/ fetchEthereumData
    \/ fetchPulsechainData
    \/ fetchBitcoinData
    \/ FetchAllChains
    \/ EthereumResolved
    \/ PulsechainResolved
    \/ BitcoinResolved

SpecPage == InitPage /\ [][NextPage]_vars

\* The page with the start order of its finished fetches recorded.
FetchResolvedInOrder(c) ==
    \E f \in inflight : \E o \in HandlerOutcomes(c) :
        /\ FetchEnds(c, f, o)
        /\ newest' = [newest EXCEPT ![c] =
                          IF f.n >= @.n
                          THEN [n |-> f.n,
                                outcome |-> IF Delivered(o) THEN "success" ELSE "failure",
                                data |-> IF Delivered(o) THEN o.response.data ELSE <<>>]
                          ELSE @]

NextOverlap ==
    \/ fetchEthereumData
    \/ fetchPulsechainData
    \/ fetchBitcoinData
    \/ FetchAllChains
    \/ FetchResolvedInOrder("ethereum")
    \/ FetchResolvedInOrder("pulsechain")
    \/ FetchResolvedInOrder("bitcoin")

SpecOverlap == InitPage /\ [][NextOverlap]_vars

\* const totalAssets
totalAssets == Len(ethAssets) + Len(plsAssets) + Len(btcAssets)

-----------------------------------------------------------------------------
(* ContentRelay: GET /content/[id] (route.ts).  Each request received is a  *)
(* record: the identifier, its position, the upstream requests it has made, *)
(* what the upstream did, in order, and the response given.                 *)

RelayIds == {"6fb976ab49dcec017f1e201e84395983204ae1a7c2abf7ced0a85d692e442799i0",
             "unknown", ""}

\* status codes and content-type headers of the upstream; NoHeader when the
\* response has no content-type header
UpstreamStatuses == {200, 206, 404, 500}
NoHeader == [present |-> FALSE]
Header(v) == [present |-> TRUE, value |-> v]
UpstreamContentTypes ==
    {NoHeader, Header(""), Header("image/png"), Header("text/html;charset=utf-8")}
UpstreamBytes == {<<>>, <<137, 80>>, <<60>>}

\* response.ok
Ok(status) == status >= 200 /\ status <= 299

\* const sourceUrl
SourceUrl(id) == [host |-> "ordinals.com", path |-> <<"/content/", id>>]

\* response.headers.get('content-type') || 'application/octet-stream'
ContentTypeOf(header) ==
    IF ~header.present \/ header.value = "" THEN "application/octet-stream"
    ELSE header.value

RelayContentShortCache(contentType, content) ==
    [status |-> 200, body |-> content,
     headers |-> [contentType |-> contentType,
                  cacheControl |-> [public |-> TRUE, maxAge |-> 3600],
                  accessControlAllowOrigin |-> "*"]]

\* new NextResponse(content, { status: 200, headers: ... })
RelayContent(contentType, content) ==
    [status |-> 200, body |-> content,
     headers |-> [contentType |-> contentType,
                  cacheControl |-> [public |-> TRUE, maxAge |-> 86400],
                  accessControlAllowOrigin |-> "*"]]

RelayNotFoundWithoutId(id) ==
    [status |-> 404, body |-> [error |-> "Content not found"],
     headers |-> [contentType |-> "application/json"]]

\* NextResponse.json({ error: 'Content not found', id }, { status: 404 })
RelayNotFound(id) ==
    [status |-> 404, body |-> [error |-> "Content not found", id |-> id],
     headers |-> [contentType |-> "application/json"]]

NoResponse == [pending |-> TRUE]

HandlerIdle ==
    /\ chain = "none" /\ address = <<>> /\ apiKey = "" /\ pc = "idle"
    /\ requests = <<>> /\ events = <<>>
    /\ nativeResult = NoResult /\ tokensResult = NoResult /\ extraResult = NoResult
    /\ ordLog = <<>> /\ ordinals = <<>>
    /\ tokenIdx = 0 /\ assets = <<>>
    /\ allAssets = <<>> /\ result = NoResult
    /\ answers = <<>> /\ first = NoCall

InitRelay ==
    /\ HandlerIdle
    /\ PageIdle
    /\ relay = RelayIdle
    /\ calc = CalcIdle

\* the relay's request n moves on; nothing else changes
RelayStep(n, pcAfter, observed, responseAfter) ==
    /\ relay' = [relay EXCEPT ![n] =
                     [@ EXCEPT !.pc = pcAfter,
                               !.upstream = @ \o observed,
                               !.response = responseAfter]]
    /\ UNCHANGED <<handlerVars, pageVars, calc>>

\* GET up to  await fetch(sourceUrl, ...)
RelayGET(id) ==
    /\ Len(relay) < MaxRelayRequests
    /\ relay' = Append(relay, [id |-> id, pc |-> "fetch_wait",
                               fetches |-> <<SourceUrl(id)>>,
                               upstream |-> <<>>, response |-> NoResponse])
    /\ UNCHANGED <<handlerVars, pageVars, calc>>

\* the upstream answers with a status and headers: under response.ok the
\* body is awaited, otherwise the handler falls through to the 404
RelayFetchResolves(n) ==
    /\ n \in 1..Len(relay) /\ relay[n].pc = "fetch_wait"
    /\ \E st \in UpstreamStatuses : \E h \in UpstreamContentTypes :
          LET seen == <<[kind |-> "headers", status |-> st, contentType |-> h]>>
          IN  IF Ok(st)
              THEN RelayStep(n, "body_wait", seen, NoResponse)
              ELSE RelayStep(n, "responded", seen, RelayNotFound(relay[n].id))

\* the fetch rejects with a network error: the catch logs, then the 404
RelayFetchRejects(n) ==
    /\ n \in 1..Len(relay) /\ relay[n].pc = "fetch_wait"
    /\ RelayStep(n, "responded", <<[kind |-> "neterr"]>>, RelayNotFound(relay[n].id))

\* response.arrayBuffer() resolves: the 200 response
RelayBodyRead(n) ==
    /\ n \in 1..Len(relay) /\ relay[n].pc = "body_wait"
    /\ \E b \in UpstreamBytes :
          RelayStep(n, "responded", <<[kind |-> "body", bytes |-> b]>>,
                    RelayContent(ContentTypeOf(relay[n].upstream[1].contentType), b))

\* response.arrayBuffer() rejects: the catch logs, then the 404
RelayBodyFails(n) ==
    /\ n \in 1..Len(relay) /\ relay[n].pc = "body_wait"
    /\ RelayStep(n, "responded", <<[kind |-> "bodyerr"]>>, RelayNotFound(relay[n].id))

RelayTimeoutFetchOnly(n) ==
    /\ n \in 1..Len(relay) /\ relay[n].pc = "fetch_wait"
    /\ RelayStep(n, "responded", <<[kind |-> "timeout"]>>, RelayNotFound(relay[n].id))

\* AbortSignal.timeout(10000) fires: the pending fetch, or the pending read
\* of its body, rejects; the catch logs, then the 404
RelayTimeout(n) ==
    /\ n \in 1..Len(relay) /\ relay[n].pc \in {"fetch_wait", "body_wait"}
    /\ RelayStep(n, "responded", <<[kind |-> "timeout"]>>, RelayNotFound(relay[n].id))

NextRelay ==
    \/ \E id \in RelayIds : RelayGET(id)
    \/ \E n \in 1..MaxRelayRequests : RelayFetchResolves(n)
    \/ \E n \in 1..MaxRelayRequests : RelayFetchRejects(n)
    \/ \E n \in 1..MaxRelayRequests : RelayBodyRead(n)
    \/ \E n \in 1..MaxRelayRequests : RelayBodyFails(n)
    \/ \E n \in 1..MaxRelayRequests : RelayTimeout(n)

SpecRelay == InitRelay /\ [][NextRelay]_vars

\* the runtime's timer fires the abort signal ten seconds after its creation
SpecRelayLive ==
    /\ InitRelay
    /\ [][NextRelay]_vars
    /\ \A n \in 1..MaxRelayRequests : WF_vars(RelayTimeout(n))

-----------------------------------------------------------------------------
(* The synchronous functions of the handlers and of the page, applied one   *)
(* at a time to an argument: getAddressType, one pass of the token loop,   *)
(* the asset built from one raw inscription by each parser, AssetGrid.     *)

LowerLetters == <<"a", "b", "c", "d", "e", "f", "g", "h", "i", "j", "k", "l", "m", "n",
                  "o", "p", "q", "r", "s", "t", "u", "v", "w", "x", "y", "z">>
UpperLetters == <<"A", "B", "C", "D", "E", "F", "G", "H", "I", "J", "K", "L", "M", "N",
                  "O", "P", "Q", "R", "S", "T", "U", "V", "W", "X", "Y", "Z">>

\* String.prototype.toLowerCase / toUpperCase on the characters modelled
toLowerCase(s) ==
    [i \in 1..Len(s) |->
        IF \E k \in 1..26 : UpperLetters[k] = s[i]
        THEN LowerLetters[CHOOSE k \in 1..26 : UpperLetters[k] = s[i]]
        ELSE s[i]]
toUpperCase(s) ==
    [i \in 1..Len(s) |->
        IF \E k \in 1..26 : LowerLetters[k] = s[i]
        THEN UpperLetters[CHOOSE k \in 1..26 : LowerLetters[k] = s[i]]
        ELSE s[i]]

\* String.prototype.includes
includes(s, sub) ==
    \E i \in 0..(Len(s) - Len(sub)) : SubSeq(s, i + 1, i + Len(sub)) = sub

\* Boolean(s.trim()): some character of s is not white space
trim(s) == \E i \in 1..Len(s) : s[i] \notin {" ", "\t", "\n"}

\* the class \w of a regular expression
WordChars == Lower \cup Upper \cup Digits \cup {"_"}

\* s.replace(/-/g, ' ').replace(/\b\w/g, l => l.toUpperCase())
TitleCase(s) ==
    LET spaced == [i \in 1..Len(s) |-> IF s[i] = "-" THEN " " ELSE s[i]]
    IN  [i \in 1..Len(spaced) |->
            IF spaced[i] \in WordChars /\ (i = 1 \/ spaced[i - 1] \notin WordChars)
            THEN toUpperCase(<<spaced[i]>>)[1]
            ELSE spaced[i]]

\* url && typeof url === 'string' && url.startsWith('http')
startsWithHttp(url) == url.scheme \in {"http", "https"}

\* the first URL of the list that starts with http, if any
RECURSIVE FirstHttp(_)
FirstHttp(possibleUrls) ==
    IF possibleUrls = <<>> THEN NoUrl
    ELSE IF startsWithHttp(Head(possibleUrls)) THEN Head(possibleUrls)
    ELSE FirstHttp(Tail(possibleUrls))

detectSpecialInscriptionTypeTextFirst(inscription) ==
    LET content == toLowerCase(inscription.content_type)
    IN  IF includes(content, <<"t", "e", "x", "t">>) THEN "text"
        ELSE IF includes(content, <<"h", "t", "m", "l">>) THEN "interactive"
        ELSE "standard"

\* A string member that is absent is the empty string: the functions below
\* test such members for truthiness only.
detectSpecialInscriptionType(inscription) ==
    LET content == toLowerCase(inscription.content_type)
        title == toLowerCase(inscription.title)
    IN  IF \/ includes(title, <<"q", "u", "a", "n", "t", "u", "m", " ", "c", "a", "t">>)
           \/ includes(inscription.collection_id, <<"q", "u", "a", "n", "t", "u", "m", "-",
                                                    "c", "a", "t", "s">>)
           \/ (includes(content, <<"h", "t", "m", "l">>) /\ includes(title, <<"c", "a", "t">>))
        THEN "quantum-cats"
        ELSE IF \/ includes(title, <<"n", "o", "d", "e", "m", "o", "n", "k", "e">>)
                \/ includes(inscription.collection_id, <<"n", "o", "d", "e", "m", "o", "n",
                                                         "k", "e", "s">>)
        THEN "nodemonkes"
        ELSE IF \/ includes(title, <<"b", "i", "t", "c", "o", "i", "n", " ", "p", "u", "p",
                                     "p", "e", "t">>)
                \/ includes(inscription.collection_id, <<"b", "i", "t", "c", "o", "i", "n",
                                                         "-", "p", "u", "p", "p", "e", "t",
                                                         "s">>)
        THEN "bitcoin-puppets"
        ELSE IF \/ includes(title, <<"t", "a", "p", "r", "o", "o", "t", " ", "w", "i", "z",
                                     "a", "r", "d">>)
                \/ includes(inscription.collection_id, <<"t", "a", "p", "r", "o", "o", "t",
                                                         "-", "w", "i", "z", "a", "r", "d",
                                                         "s">>)
        THEN "taproot-wizards"
        ELSE IF includes(content, <<"h", "t", "m", "l">>) \/ includes(content, <<"j", "a",
                                                                                 "v", "a",
                                                                                 "s", "c",
                                                                                 "r", "i",
                                                                                 "p", "t">>)
        THEN "interactive"
        ELSE IF includes(content, <<"t", "e", "x", "t">>) THEN "text"
        ELSE IF includes(content, <<"s", "v", "g">>) THEN "svg"
        ELSE "standard"

\* the switch of getInscriptionName: the text before the number
NameLabel(specialType) ==
    CASE specialType = "quantum-cats" -> <<"Q", "u", "a", "n", "t", "u", "m", " ", "C",
                                           "a", "t", " ", "#">>
      [] specialType = "nodemonkes" -> <<"N", "o", "d", "e", "M", "o", "n", "k", "e", " ", "#">>
      [] specialType = "bitcoin-puppets" -> <<"B", "i", "t", "c", "o", "i", "n", " ", "P",
                                              "u", "p", "p", "e", "t", " ", "#">>
      [] specialType = "taproot-wizards" -> <<"T", "a", "p", "r", "o", "o", "t", " ", "W",
                                              "i", "z", "a", "r", "d", " ", "#">>
      [] specialType = "interactive" -> <<"I", "n", "t", "e", "r", "a", "c", "t", "i", "v",
                                          "e", " ", "I", "n", "s", "c", "r", "i", "p", "t",
                                          "i", "o", "n", " ", "#">>
      [] specialType = "text" -> <<"T", "e", "x", "t", " ", "I", "n", "s", "c", "r", "i",
                                   "p", "t", "i", "o", "n", " ", "#">>
      [] specialType = "svg" -> <<"S", "V", "G", " ", "I", "n", "s", "c", "r", "i", "p",
                                  "t", "i", "o", "n", " ", "#">>
      [] OTHER -> <<"I", "n", "s", "c", "r", "i", "p", "t", "i", "o", "n", " ", "#">>

getInscriptionNameIgnoringTitle(inscription, specialType) ==
    NameLabel(specialType) \o NumberToString(inscription.number)

getInscriptionName(inscription, specialType) ==
    IF inscription.title # <<>> /\ trim(inscription.title)
    THEN inscription.title
    ELSE NameLabel(specialType) \o NumberToString(inscription.number)

\* the switch of getCollectionName
CollectionLabel(specialType) ==
    CASE specialType = "quantum-cats" -> <<"Q", "u", "a", "n", "t", "u", "m", " ", "C",
                                           "a", "t", "s">>
      [] specialType = "nodemonkes" -> <<"N", "o", "d", "e", "M", "o", "n", "k", "e", "s">>
      [] specialType = "bitcoin-puppets" -> <<"B", "i", "t", "c", "o", "i", "n", " ", "P",
                                              "u", "p", "p", "e", "t", "s">>
      [] specialType = "taproot-wizards" -> <<"T", "a", "p", "r", "o", "o", "t", " ", "W",
                                              "i", "z", "a", "r", "d", "s">>
      [] specialType = "interactive" -> <<"I", "n", "t", "e", "r", "a", "c", "t", "i", "v",
                                          "e", " ", "O", "r", "d", "i", "n", "a", "l", "s">>
      [] specialType = "text" -> <<"T", "e", "x", "t", " ", "I", "n", "s", "c", "r", "i",
                                   "p", "t", "i", "o", "n", "s">>
      [] specialType = "svg" -> <<"S", "V", "G", " ", "I", "n", "s", "c", "r", "i", "p",
                                  "t", "i", "o", "n", "s">>
      [] OTHER -> <<"B", "i", "t", "c", "o", "i", "n", " ", "O", "r", "d", "i", "n", "a",
                    "l", "s">>

getCollectionName(inscription, specialType) ==
    IF inscription.collection_id # <<>>
    THEN TitleCase(inscription.collection_id)
    ELSE CollectionLabel(specialType)

getOrdinalImageUrl(inscription, specialType) ==
    LET id == inscription.id
        rendered == FirstHttp(<<inscription.preview_url,
                                Url("https", "ordinals.com", <<"/preview/", id>>),
                                Url("https", "ordinals.com", <<"/content/", id>>),
                                inscription.content_url>>)
        standard == FirstHttp(<<inscription.content_url,
                                inscription.preview_url,
                                Url("https", "ordinals.com", <<"/content/", id>>),
                                Url("https", "ordinals.com", <<"/preview/", id>>),
                                Url("https", "ord.io", <<"/", id>>),
                                Url("https", "ordinalslite.com", <<"/content/", id>>),
                                Url("https", "api.hiro.so",
                                    <<"/ordinals/v1/inscriptions/", id, "/content">>)>>)
    IN  IF specialType \in {"quantum-cats", "interactive"} THEN rendered
        ELSE IF specialType = "svg" /\ inscription.content_url # NoUrl
        THEN inscription.content_url
        ELSE IF specialType = "text" THEN NoUrl
        ELSE standard

\* the asset parseHiroOrdinals builds from one entry of data.results
HiroOrdinalAsset(addr, inscription) ==
    LET specialType == detectSpecialInscriptionType(inscription)
    IN  OrdinalAsset(addr, inscription) @@
        [name |-> getInscriptionName(inscription, specialType),
         inscriptionNumber |-> inscription.number,
         contentType |-> inscription.content_type,
         contentUrl |-> inscription.content_url,
         imageUrl |-> getOrdinalImageUrl(inscription, specialType),
         collectionName |-> getCollectionName(inscription, specialType)]

\* the asset parseMagicEdenOrdinals builds from one entry of data; name and
\* image are token.meta?.name and token.meta?.image
MagicEdenOrdinalAsset(addr, token) ==
    OrdinalAsset(addr, token) @@
    [name |-> IF token.name # <<>> THEN token.name
              ELSE <<"O", "r", "d", "i", "n", "a", "l", " ",
                     "#">> \o NumberToString(token.inscriptionNumber),
     inscriptionNumber |-> token.inscriptionNumber,
     contentType |-> token.contentType,
     imageUrl |-> IF token.image # NoUrl THEN token.image ELSE token.imageURI,
     collectionName |-> IF token.collectionSymbol # <<>> THEN token.collectionSymbol
                        ELSE <<"B", "i", "t", "c", "o", "i", "n", " ", "O", "r", "d", "i",
                               "n", "a", "l", "s">>]

\* AssetGrid: const regularAssets, const nftAssets
AssetGrid(gridAssets) ==
    [regularAssets |-> SelectSeq(gridAssets, LAMBDA a : a.type # "nft"),
     nftAssets |-> SelectSeq(gridAssets, LAMBDA a : a.type = "nft")]

\* Raw inscriptions of the primary indexer: titles, content types and
\* collection ids that match each rule of the classification and none, in
\* either letter case, absent and blank.
InscriptionTitles ==
    { <<>>, <<" ", " ">>, <<"c", "a", "t">>, <<"P", "e", "p", "e">>,
      <<"Q", "u", "a", "n", "t", "u", "m", " ", "C", "a", "t">>,
      <<"N", "o", "d", "e", "M", "o", "n", "k", "e">>,
      <<"B", "i", "t", "c", "o", "i", "n", " ", "P", "u", "p", "p", "e", "t">>,
      <<"T", "a", "p", "r", "o", "o", "t", " ", "W", "i", "z", "a", "r", "d">> }
InscriptionContentTypes ==
    { <<>>,
      <<"t", "e", "x", "t", "/", "h", "t", "m", "l">>,
      <<"T", "E", "X", "T", "/", "H", "T", "M", "L">>,
      <<"a", "p", "p", "l", "i", "c", "a", "t", "i", "o", "n", "/", "j", "a", "v", "a",
        "s", "c", "r", "i", "p", "t">>,
      <<"t", "e", "x", "t", "/", "p", "l", "a", "i", "n">>,
      <<"i", "m", "a", "g", "e", "/", "s", "v", "g", "+", "x", "m", "l">>,
      <<"i", "m", "a", "g", "e", "/", "p", "n", "g">> }
InscriptionCollections ==
    { <<>>,
      <<"q", "u", "a", "n", "t", "u", "m", "-", "c", "a", "t", "s">>,
      <<"Q", "u", "a", "n", "t", "u", "m", "-", "C", "a", "t", "s">>,
      <<"n", "o", "d", "e", "m", "o", "n", "k", "e", "s">>,
      <<"b", "i", "t", "c", "o", "i", "n", "-", "p", "u", "p", "p", "e", "t", "s">>,
      <<"t", "a", "p", "r", "o", "o", "t", "-", "w", "i", "z", "a", "r", "d", "s">>,
      <<"m", "y", "-", "a", "r", "t">> }
InscriptionNumbers == {0, 7}
ContentUrls(id) ==
    { NoUrl, Url("https", "api.hiro.so", <<"/ordinals/v1/inscriptions/", id, "/content">>),
      Url("ipfs", "", <<id>>) }
PreviewUrls(id) == { NoUrl, Url("https", "ordinals.com", <<"/preview/", id>>) }

RawInscriptions ==
    { [id |-> "i1", number |-> n, title |-> t, content_type |-> ct,
       collection_id |-> col, content_url |-> cu, preview_url |-> pu] :
          n \in InscriptionNumbers, t \in InscriptionTitles,
          ct \in InscriptionContentTypes, col \in InscriptionCollections,
          cu \in ContentUrls("i1"), pu \in PreviewUrls("i1") }

\* Raw tokens of the secondary indexer
RawTokens ==
    { [id |-> "i1", inscriptionNumber |-> n, name |-> t, contentType |-> ct,
       collectionSymbol |-> col, image |-> im,
       imageURI |-> Url("https", "img.magiceden.dev", <<"/", "i1">>)] :
          n \in InscriptionNumbers, t \in InscriptionTitles,
          ct \in InscriptionContentTypes, col \in InscriptionCollections,
          im \in PreviewUrls("i1") }

\* balances a token contract answers with (base units)
TokenBalances == {0, 1, 1500000, 100000000, 123456789, 2000000000}

\* the wallet the assets are built for
CalcWallet == MkAddr(<<"b", "c", "1">>, "q", 39)

\* lists handed to AssetGrid: what BitcoinHandler.getAllAssets and
\* EthereumHandler.getAllAssets return
GridLists ==
    LET btc == BtcNativeAsset(CalcWallet, <<"1", "0", "0", "0", "0", "0", "0", "0", "0">>,
                                            <<"1", ".", "0", "0", "0", "0", "0", "0", "0",
                                            "0">>)
        eth == NativeAsset("ethereum", <<"0", "x", "a">>, 1500000)
        nft == NftAsset(<<"0", "x", "a">>, [id |-> "1", contract |-> "0xc0ffee"])
        ords == { HiroOrdinalAsset(CalcWallet, i) :
                    i \in { r \in RawInscriptions :
                              /\ r.number = 7 /\ r.title = <<>>
                              /\ r.collection_id = <<>> /\ r.preview_url = NoUrl
                              /\ r.content_url = NoUrl } }
    IN  { <<>>, <<btc>>, <<eth>>, <<eth, nft>> }
        \cup { <<btc, o>> : o \in ords }
        \cup { <<o>> : o \in ords }

\* an application about to be made
Apply(fn, arg) == [fn |-> fn, arg |-> arg, returned |-> FALSE]

CalcArguments ==
    { Apply("getAddressType", [address |-> a]) : a \in BitcoinAddresses }
    \cup { Apply("getTokenBalances", [chain |-> c, index |-> k, balance |-> b]) :
              c \in EvmChains, k \in 1..4, b \in TokenBalances }
    \cup { Apply("parseHiroOrdinals", [inscription |-> i]) : i \in RawInscriptions }
    \cup { Apply("parseMagicEdenOrdinals", [token |-> t]) : t \in RawTokens }
    \cup { Apply("AssetGrid", [assets |-> l]) : l \in GridLists }

InitCalc ==
    /\ HandlerIdle
    /\ PageIdle
    /\ relay = RelayIdle
    /\ calc \in { a \in CalcArguments :
                    a.fn = "getTokenBalances"
                        => a.arg.index <= Len(PopularTokens(a.arg.chain)) }

\* the application returns value
Returns(fn, value) ==
    /\ calc.fn = fn /\ ~calc.returned
    /\ calc' = [fn |-> fn, arg |-> calc.arg, returned |-> TRUE, value |-> value]
    /\ UNCHANGED <<handlerVars, pageVars, relay>>

CalcGetAddressType ==
    /\ calc.fn = "getAddressType"
    /\ Returns("getAddressType", [type |-> getAddressType(calc.arg.address)])

\* one pass of the token loop with the contract's answer
CalcTokenPass ==
    /\ calc.fn = "getTokenBalances"
    /\ Returns("getTokenBalances",
               [assets |-> TokenPass(calc.arg.chain, <<"0", "x", "a">>,
                                     PopularTokens(calc.arg.chain)[calc.arg.index],
                                     [kind |-> "balance", balance |-> calc.arg.balance])])

CalcParseHiro ==
    /\ calc.fn = "parseHiroOrdinals"
    /\ Returns("parseHiroOrdinals",
               [specialType |-> detectSpecialInscriptionType(calc.arg.inscription),
                asset |-> HiroOrdinalAsset(CalcWallet, calc.arg.inscription)])

CalcParseMagicEden ==
    /\ calc.fn = "parseMagicEdenOrdinals"
    /\ Returns("parseMagicEdenOrdinals",
               [asset |-> MagicEdenOrdinalAsset(CalcWallet, calc.arg.token)])

CalcAssetGrid ==
    /\ calc.fn = "AssetGrid"
    /\ Returns("AssetGrid", AssetGrid(calc.arg.assets))

NextCalc ==
    \/ CalcGetAddressType
    \/ CalcTokenPass
    \/ CalcParseHiro
    \/ CalcParseMagicEden
    \/ CalcAssetGrid

SpecCalc == InitCalc /\ [][NextCalc]_vars

-----------------------------------------------------------------------------
(* Properties of getOrdinals.                                              *)

\* the declared order of the indexer sources
DeclaredSources == <<"Hiro API", "MagicEden API">>

SourcePosition(name) == CHOOSE p \in 1..Len(DeclaredSources) : DeclaredSources[p] = name

\* the names of the indexers queried so far, in order
IndexerQueries ==
    LET q == SelectSeq(requests, LAMBDA x : x.to \in {"Hiro API", "MagicEden API"})
    IN  [i \in 1..Len(q) |-> q[i].to]

\* the list parsed from the answer of the k-th finished attempt; empty when
\* the attempt failed before or while parsing
Yielded(k) ==
    LET e == ordLog[k]
    IN  IF e.response.kind # "json" THEN <<>>
        ELSE IF e.source = "Hiro API"
        THEN parseHiroOrdinals(e.response, address).list
        ELSE parseMagicEdenOrdinals(e.response, address).list

\* C1: whenever the attempt on a non-final indexer source has ended without a
\* non-empty parsed list (network failure, non-success status, unparseable or
\* unexpectedly shaped payload, or a success with zero inscriptions), the next
\* source of the declared list has been queried.
C1_FallbackOnEmptyOrFailure ==
    \A k \in 1..Len(ordLog) :
        (SourcePosition(ordLog[k].source) < Len(DeclaredSources) /\ Yielded(k) = <<>>)
            => \E i \in 1..Len(requests) :
                   requests[i].to = DeclaredSources[SourcePosition(ordLog[k].source) + 1]

\* the primary source answered successfully with zero inscriptions and the
\* secondary source has been queried
C1_Witness ==
    /\ Len(ordLog) >= 1
    /\ ordLog[1].source = "Hiro API"
    /\ ordLog[1].response = [kind |-> "json", shape |-> "results", items |-> <<>>]
    /\ Len(IndexerQueries) = 2
    /\ IndexerQueries[2] = "MagicEden API"

\* C2: once the list parsed from a source is non-empty, no later source is
\* queried, and the list getOrdinals returns is exactly that source's list.
C2_FirstNonEmptyWins ==
    \A k \in 1..Len(ordLog) :
        Yielded(k) # <<>>
            => /\ \A i \in 1..Len(requests) :
                      requests[i].to \in {"Hiro API", "MagicEden API"}
                          => SourcePosition(requests[i].to) <= SourcePosition(ordLog[k].source)
               /\ ordinals = Yielded(k)
               /\ extraResult = Success(Yielded(k))

\* the primary source yielded two inscriptions and the call has returned
C2_Witness ==
    /\ pc = "done"
    /\ Len(ordLog) = 1
    /\ Len(Yielded(1)) = 2
    /\ extraResult.data = Yielded(1)

\* C3: the indexer sources queried form a prefix of the declared list (Hiro,
\* then MagicEden): the primary is queried first, the secondary only after the
\* primary's attempt has finished, and no source twice.
C3_QueriesArePrefixOfDeclaredOrder ==
    /\ Len(IndexerQueries) <= Len(DeclaredSources)
    /\ IndexerQueries = SubSeq(DeclaredSources, 1, Len(IndexerQueries))
    /\ Len(IndexerQueries) <= Len(ordLog) + 1
    /\ \A k \in 1..Len(ordLog) : ordLog[k].source = DeclaredSources[k]

\* both sources have been queried and have answered
C3_Witness ==
    /\ IndexerQueries = DeclaredSources
    /\ Len(ordLog) = 2

\* C4: if every indexer source failed or yielded zero inscriptions, getOrdinals
\* returns success = true with an empty list.
C4_AllSourcesEmptyIsSuccess ==
    (chain = "bitcoin" /\ Resolved(extraResult)
        /\ \A k \in 1..Len(ordLog) : Yielded(k) = <<>>)
        => extraResult = Success(<<>>)

\* the primary source failed at the network, the secondary answered with an
\* empty list, and getOrdinals has returned
C4_Witness ==
    /\ Len(ordLog) = 2
    /\ ordLog[1].response.kind = "neterr"
    /\ ordLog[2].response = [kind |-> "json", shape |-> "array", items |-> <<>>]
    /\ Resolved(extraResult)
    /\ extraResult.success

-----------------------------------------------------------------------------
(* Properties of getBTCBalance and of BitcoinHandler.getAllAssets.         *)

MatchesSomePattern(s) == LegacyPattern(s) \/ SegwitPattern(s) \/ TaprootPattern(s)

ValidationFailure ==
    Failure(<<"Failed to fetch BTC balance: ", "Error: Invalid Bitcoin address format">>)

BalanceRequested == \E i \in 1..Len(requests) : requests[i].to = "blockstream"

\* C5: getBTCBalance returns the validation failure, with no network request
\* issued, exactly when the address matches none of the legacy, segwit and
\* taproot patterns; for an address matching one of them it queries the
\* balance endpoint.
C5_ValidationBeforeBalanceQuery ==
    (chain = "bitcoin" /\ pc # "start")
        => IF MatchesSomePattern(address)
           THEN /\ requests # <<>>
                /\ requests[1] = Request("blockstream", "", address)
                /\ nativeResult # ValidationFailure
           ELSE /\ nativeResult = ValidationFailure
                /\ ~BalanceRequested
                /\ (pc = "balance_returned" => requests = <<>>)

\* getBTCBalance has returned the validation failure for a 24-character legacy
\* body and nothing has been requested
C5_Witness ==
    /\ pc = "balance_returned"
    /\ address = MkAddr(<<"1">>, "a", 24)
    /\ nativeResult = ValidationFailure
    /\ requests = <<>>

\* C6: for an address matching no pattern, BitcoinHandler.getAllAssets issues
\* no outbound request at all, neither the balance query nor an indexer query.
C6_NoRequestForInvalidAddress ==
    (chain = "bitcoin" /\ ~MatchesSomePattern(address)) => requests = <<>>

-----------------------------------------------------------------------------
(* Properties of getAllAssets.                                             *)

SubFetchData(r) == IF SuccessWithData(r) THEN r.data ELSE <<>>

\* the results of the sub-fetches that succeeded, in the fixed order
ExpectedAssets ==
    (IF SuccessWithData(nativeResult) THEN <<nativeResult.data>> ELSE <<>>)
        \o SubFetchData(tokensResult) \o SubFetchData(extraResult)

\* C9: whatever the sub-fetch outcomes, getAllAssets returns success = true
\* and its data is the concatenation, in the order (native, tokens, nfts) for
\* the EVM handlers and (balance, ordinals) for Bitcoin, of the results of the
\* sub-fetches that succeeded; a failed sub-fetch contributes nothing.
C9_ConcatenationOfSucceededSubFetches ==
    /\ pc = "done" => result = Success(ExpectedAssets)
    /\ Resolved(result) => pc = "done"

\* an Ethereum call has returned with the native sub-fetch failed and tokens
\* and NFTs found
C9_Witness ==
    /\ pc = "done" /\ chain = "ethereum"
    /\ ~nativeResult.success
    /\ Len(tokensResult.data) = 2
    /\ extraResult.success /\ Len(extraResult.data) = 2
    /\ Len(result.data) = 4

Calls(upTo) == { j \in 1..upTo : events[j][1] = "call" }

\* C10: the EVM getAllAssets starts all three sub-fetches before any of them
\* has completed.
C10_SubFetchesStartedBeforeAnyCompletes ==
    chain \in EvmChains
        => \A i \in 1..Len(events) :
               events[i][1] = "return" => Cardinality(Calls(i - 1)) = 3

-----------------------------------------------------------------------------
(* Properties of the page.                                                 *)

PageAssets(c) ==
    IF c = "ethereum" THEN ethAssets ELSE IF c = "pulsechain" THEN plsAssets ELSE btcAssets

\* the chain an error note names
ErrorChain(e) ==
    IF e = <<>> THEN "none"
    ELSE IF e[1] \in {"Bitcoin error: ", "Failed to fetch Bitcoin assets",
                      "Failed to fetch all Bitcoin assets: ",
                      "No test BTC wallet found in environment variables"}
    THEN "bitcoin"
    ELSE "unknown"

\* the latest fetch of every chain was made by one fetchAllChains, which ended
AllChainsFetchEnded == ~isLoading /\ \A c \in Chains : history[c].all

\* C7: when the three chains are fetched together and exactly one handler
\* fails, the output holds all assets of the two other chains, none of the
\* failed chain, and an error note naming the failed chain; whichever chain.
C7_PartialFailure ==
    \A b \in Chains :
        (/\ AllChainsFetchEnded
         /\ history[b].outcome = "failure"
         /\ \A c \in Chains \ {b} : history[c].outcome = "success")
            => /\ \A c \in Chains \ {b} : PageAssets(c) = history[c].data
               /\ PageAssets(b) = <<>>
               /\ ErrorChain(error) = b

\* C8: the total asset count is the sum of the asset counts of the chains
\* whose latest fetch succeeded; a chain whose latest fetch failed counts zero.
C8_TotalIsSumOfSuccessfulChains ==
    totalAssets =
        (IF history["ethereum"].outcome = "success"
         THEN Len(history["ethereum"].data) ELSE 0)
        + (IF history["pulsechain"].outcome = "success"
           THEN Len(history["pulsechain"].data) ELSE 0)
        + (IF history["bitcoin"].outcome = "success"
           THEN Len(history["bitcoin"].data) ELSE 0)

-----------------------------------------------------------------------------
(* Properties of getTokenBalances.                                         *)

\* the answers to the balanceOf queries of the token scan, in order
TokenAnswers ==
    SelectSeq(answers, LAMBDA a : a.request.to = "rpc" /\ a.request.target # "getBalance")

\* the positions of the configured list whose query was answered with a
\* strictly positive balance, in increasing order
HeldPositions ==
    SelectSeq([i \in 1..Len(TokenAnswers) |-> i],
              LAMBDA i : /\ TokenAnswers[i].response.kind = "balance"
                         /\ TokenAnswers[i].response.balance > 0)

\* C11: getTokenBalances returns success with exactly the configured tokens
\* whose balance query succeeded with a strictly positive balance, in
\* configured order; a token whose query fails or whose balance is zero is
\* omitted, and every configured token is queried whatever the answers to
\* the tokens before it.
C11_TokenScanReportsPositiveBalances ==
    chain \in EvmChains
        => LET tokens == PopularTokens(chain)
           IN  /\ \A i \in 1..Len(TokenAnswers) :
                      /\ i <= Len(tokens)
                      /\ TokenAnswers[i].request =
                             Request("rpc", tokens[i].address, address)
                      /\ i < Len(tokens)
                             => \E j \in 1..Len(requests) :
                                    requests[j] = Request("rpc", tokens[i + 1].address,
                                                          address)
               /\ Resolved(tokensResult)
                      => /\ Len(TokenAnswers) = Len(tokens)
                         /\ tokensResult =
                                Success([j \in 1..Len(HeldPositions) |->
                                            TokenAsset(chain, address,
                                                       tokens[HeldPositions[j]],
                                                       TokenAnswers[HeldPositions[j]]
                                                           .response.balance)])

\* the Ethereum scan has returned: the first token's query failed, the second
\* token's balance is zero, the last two are held and reported in order
C11_Witness ==
    /\ chain = "ethereum"
    /\ Resolved(tokensResult)
    /\ Len(TokenAnswers) = 4
    /\ TokenAnswers[1].response.kind = "error"
    /\ TokenAnswers[2].response = [kind |-> "balance", balance |-> 0]
    /\ Len(tokensResult.data) = 2
    /\ tokensResult.data[1].symbol = "USDT"
    /\ tokensResult.data[2].symbol = "LINK"

-----------------------------------------------------------------------------
(* Properties of getNFTs.                                                  *)

NftRequested == \E i \in 1..Len(requests) : requests[i].to = "alchemy"

NftReturned == \E j \in 1..Len(events) : events[j] = Return("nfts")

\* C12: with no provider key configured, EthereumHandler.getNFTs returns
\* success = true with an empty list and issues no request to the NFT
\* provider.
C12_NoKeyNoNftRequest ==
    (chain = "ethereum" /\ apiKey = "")
        => /\ ~NftRequested
           /\ NftReturned => extraResult = Success(<<>>)

\* an Ethereum call without a provider key has returned; getNFTs was called
\* and returned, and nothing was requested from the provider
C12_Witness ==
    /\ chain = "ethereum" /\ apiKey = ""
    /\ pc = "done"
    /\ NftReturned
    /\ extraResult = Success(<<>>)
    /\ ~NftRequested

\* the provider request failed: the fetch rejected, the status was not a
\* success status, or the payload carries no owned-NFT list
ProviderRequestFailed(r) == r.kind = "neterr" \/ ~r.ok \/ r.shape # "owned"

\* C13: with a provider key configured, when the provider request fails
\* (network error, non-success status, or a payload without an owned-NFT
\* list) getNFTs returns a failure with a message, not a successful empty
\* list.
C13_ProviderFailureIsFailure ==
    \A i \in 1..Len(answers) :
        (answers[i].request.to = "alchemy" /\ ProviderRequestFailed(answers[i].response))
            => /\ ~extraResult.success
               /\ "error" \in DOMAIN extraResult

-----------------------------------------------------------------------------
(* Properties of the ContentRelay.                                         *)

Responded(n) == relay[n].pc = "responded"

\* the upstream answered request n successfully: a success status, then the
\* whole body
UpstreamSucceeded(n) ==
    /\ Len(relay[n].upstream) = 2
    /\ relay[n].upstream[1].kind = "headers"
    /\ Ok(relay[n].upstream[1].status)
    /\ relay[n].upstream[2].kind = "body"

\* the upstream failed on request n: a network error, the timeout, a
\* non-success status, or a failure while the body was read
UpstreamFailed(n) ==
    LET last == relay[n].upstream[Len(relay[n].upstream)]
    IN  /\ relay[n].upstream # <<>>
        /\ \/ last.kind \in {"neterr", "timeout", "bodyerr"}
           \/ last.kind = "headers" /\ (last.status < 200 \/ last.status > 299)

\* C14: when the upstream content host answers a relay request successfully,
\* the relay responds with status 200, the upstream bytes unchanged, the
\* content type the upstream declared, a public cache directive of 24 hours
\* and an allow-any-origin header.
C14_SuccessIsRelayedUnchanged ==
    \A n \in 1..Len(relay) :
        UpstreamSucceeded(n)
            => LET declared == relay[n].upstream[1].contentType
                   r == relay[n].response
               IN  /\ Responded(n)
                   /\ r.status = 200
                   /\ r.body = relay[n].upstream[2].bytes
                   /\ (declared.present /\ declared.value # "")
                          => r.headers.contentType = declared.value
                   /\ r.headers.cacheControl = [public |-> TRUE, maxAge |-> 24 * 60 * 60]
                   /\ r.headers.accessControlAllowOrigin = "*"

\* the upstream answered 206 with a declared content type and two bytes,
\* and the relay has responded
C14_Witness ==
    \E n \in 1..Len(relay) :
        /\ Responded(n)
        /\ relay[n].upstream =
               <<[kind |-> "headers", status |-> 206, contentType |-> Header("image/png")],
                 [kind |-> "body", bytes |-> <<137, 80>>]>>
        /\ relay[n].response.status = 200

\* C15: on any upstream failure (network error, timeout, non-success status,
\* failure while reading the body) the relay responds with status 404 and a
\* JSON body containing the requested identifier, after exactly one upstream
\* request, made to the one upstream host: it never retries and never
\* contacts a second host.
C15_FailureIsNotFoundAfterOneRequest ==
    \A n \in 1..Len(relay) :
        /\ Len(relay[n].fetches) = 1
        /\ relay[n].fetches[1].host = "ordinals.com"
        /\ relay[n].fetches[1].path = <<"/content/", relay[n].id>>
        /\ UpstreamFailed(n)
               => /\ Responded(n)
                  /\ relay[n].response.status = 404
                  /\ relay[n].response.headers.contentType = "application/json"
                  /\ "id" \in DOMAIN relay[n].response.body
                  /\ relay[n].response.body.id = relay[n].id

\* the upstream sent a success status and the read of its body then failed;
\* the relay has responded
C15_Witness ==
    \E n \in 1..Len(relay) :
        /\ Responded(n)
        /\ Len(relay[n].upstream) = 2
        /\ relay[n].upstream[1].status = 200
        /\ relay[n].upstream[2].kind = "bodyerr"
        /\ relay[n].response.status = 404

\* C16: every relay request eventually receives a response, 200 or 404, even
\* if the upstream host never answers: the timeout of the upstream fetch
\* expires and leads to the 404.
C16_EveryRequestIsAnswered ==
    \A n \in 1..MaxRelayRequests :
        (Len(relay) >= n)
            ~> (Len(relay) >= n /\ Responded(n)
                   /\ relay[n].response.status \in {200, 404})

\* the upstream never answered; the timeout expired and the relay responded
C16_Witness ==
    \E n \in 1..Len(relay) :
        /\ Responded(n)
        /\ relay[n].upstream = <<[kind |-> "timeout"]>>
        /\ relay[n].response.status = 404

-----------------------------------------------------------------------------
(* Properties of every public operation of the handlers.                   *)

Returned(name) == \E j \in 1..Len(events) : events[j] = Return(name)

\* a tagged outcome: success carrying data and no error, or failure carrying
\* a message and no data
Tagged(r) ==
    /\ Resolved(r)
    /\ IF r.success
       THEN DOMAIN r = {"success", "data"}
       ELSE /\ DOMAIN r = {"success", "error"}
            /\ Len(r.error) >= 1
            /\ r.error[1] # ""

\* C17: every public handler operation (native balance, token scan, NFT
\* fetch, ordinals fetch, getAllAssets of each chain), once it has returned,
\* has resolved to a tagged outcome whatever the upstream did: success with
\* data and no error, or failure with an error message and no data.
C17_EveryOperationReturnsTaggedOutcome ==
    /\ (Returned("balance") \/ Returned("native")) => Tagged(nativeResult)
    /\ Returned("tokens") => Tagged(tokensResult)
    /\ (Returned("ordinals") \/ Returned("nfts") \/ Returned("stakes"))
           => Tagged(extraResult)
    /\ pc = "done" => Tagged(result)
    /\ pc = "done"
           => /\ Returned("balance") \/ Returned("native")
              /\ Returned("ordinals") \/ (Returned("tokens") /\ (Returned("nfts")
                                                               \/ Returned("stakes")))

\* an Ethereum call has returned after the node rejected the native balance
\* query and the NFT provider answered with a body that is not JSON
C17_Witness ==
    /\ chain = "ethereum" /\ pc = "done"
    /\ ~nativeResult.success
    /\ tokensResult.success
    /\ \E i \in 1..Len(answers) :
           /\ answers[i].request.to = "alchemy"
           /\ answers[i].response.kind = "badjson"
    /\ ~extraResult.success
    /\ result.success

-----------------------------------------------------------------------------
(* Properties of repeated calls and of asset ids.                          *)

\* The assets of the model carry every field of Asset that the handlers
\* derive from their inputs; lastUpdated (new Date()) is not among them.
SecondCallReturned == first # NoCall /\ pc = "done"

Chars(s) ==
    CASE s = "btc_" ->
          <<"b", "t", "c", "_">>
      [] s = "eth_" ->
          <<"e", "t", "h", "_">>
      [] s = "pls_" ->
          <<"p", "l", "s", "_">>
      [] s = "_native" ->
          <<"_", "n", "a", "t", "i", "v", "e">>
      [] s = "_ordinal_" ->
          <<"_", "o", "r", "d", "i", "n", "a", "l", "_">>
      [] s = "_" ->
          <<"_">>
      [] s = "i1" ->
          <<"i", "1">>
      [] s = "i2" ->
          <<"i", "2">>
      [] s = "1" ->
          <<"1">>
      [] s = "2" ->
          <<"2">>
      [] s = "0xc0ffee" ->
          <<"0", "x", "c", "0", "f", "f", "e", "e">>
      [] s = "0x2b591e99afE9f32eAA6214f7B7629768c40Eeb39" ->
          <<"0", "x", "2", "b", "5", "9", "1", "e", "9", "9", "a", "f", "E",
            "9", "f", "3", "2", "e", "A", "A", "6", "2", "1", "4", "f", "7",
            "B", "7", "6", "2", "9", "7", "6", "8", "c", "4", "0", "E", "e",
            "b", "3", "9">>
      [] s = "0xA0b86991c6218b36c1d19D4a2e9Eb0cE3606eB48" ->
          <<"0", "x", "A", "0", "b", "8", "6", "9", "9", "1", "c", "6", "2",
            "1", "8", "b", "3", "6", "c", "1", "d", "1", "9", "D", "4", "a",
            "2", "e", "9", "E", "b", "0", "c", "E", "3", "6", "0", "6", "e",
            "B", "4", "8">>
      [] s = "0xdAC17F958D2ee523a2206206994597C13D831ec7" ->
          <<"0", "x", "d", "A", "C", "1", "7", "F", "9", "5", "8", "D", "2",
            "e", "e", "5", "2", "3", "a", "2", "2", "0", "6", "2", "0", "6",
            "9", "9", "4", "5", "9", "7", "C", "1", "3", "D", "8", "3", "1",
            "e", "c", "7">>
      [] s = "0x514910771AF9Ca656af840dff83E8264EcF986CA" ->
          <<"0", "x", "5", "1", "4", "9", "1", "0", "7", "7", "1", "A", "F",
            "9", "C", "a", "6", "5", "6", "a", "f", "8", "4", "0", "d", "f",
            "f", "8", "3", "E", "8", "2", "6", "4", "E", "c", "F", "9", "8",
            "6", "C", "A">>
      [] s = "0xA1077a294dDE1B09bB078844df40758a5D0f9a27" ->
          <<"0", "x", "A", "1", "0", "7", "7", "a", "2", "9", "4", "d", "D",
            "E", "1", "B", "0", "9", "b", "B", "0", "7", "8", "8", "4", "4",
            "d", "f", "4", "0", "7", "5", "8", "a", "5", "D", "0", "f", "9",
            "a", "2", "7">>
      [] s = "0x15D38573d2feeb82e7ad5187aB8c1D52810B1f07" ->
          <<"0", "x", "1", "5", "D", "3", "8", "5", "7", "3", "d", "2", "f",
            "e", "e", "b", "8", "2", "e", "7", "a", "d", "5", "1", "8", "7",
            "a", "B", "8", "c", "1", "D", "5", "2", "8", "1", "0", "B", "1",
            "f", "0", "7">>

RECURSIVE ConcatChars(_)
ConcatChars(parts) ==
    IF parts = <<>> THEN <<>> ELSE Chars(Head(parts)) \o ConcatChars(Tail(parts))

\* the id string a template literal evaluates to: the prefix, the address
\* argument and the parts after it, concatenated
IdString(id) == Chars(id[1]) \o id[2] \o ConcatChars(SubSeq(id, 3, Len(id)))

\* the sub-identifier of an asset within its chain and wallet
SubIdentifier(a) ==
    IF a.type = "native" THEN <<"native">>
    ELSE IF a.type = "token" THEN <<"token", a.contractAddress>>
    ELSE IF a.type = "nft" THEN <<"nft", a.contractAddress, a.tokenId>>
    ELSE <<"ordinal", a.inscriptionId>>

\* what identifies an asset, and the id string it was given
Identity(a) ==
    [chain |-> a.chain, walletAddress |-> a.walletAddress, sub |-> SubIdentifier(a),
     id |-> IdString(a.id)]

\* the assets the handler of chain c can produce for the address a; the NFT
\* provider may also list items of a contract of the configured token list
CallAssets(c, a) ==
    IF c = "bitcoin"
    THEN {BtcNativeAsset(a, <<"0">>, <<"0">>)}
             \cup { OrdinalAsset(a, item) : item \in RawItems \ {NullItem} }
    ELSE {NativeAsset(c, a, 0)}
             \cup { TokenAsset(c, a, PopularTokens(c)[k], 1) :
                        k \in 1..Len(PopularTokens(c)) }
             \cup (IF c = "ethereum"
                   THEN { NftAsset(a, nft) : nft \in NftItems \ {NullItem} }
                            \cup { NftAsset(a, [id |-> i,
                                                contract |-> PopularTokens(c)[k].address]) :
                                       i \in {"1", "2"}, k \in 1..Len(PopularTokens(c)) }
                   ELSE {})

CallIdentities(c, a) == { Identity(x) : x \in CallAssets(c, a) }

\* the assets the three handlers can produce for the addresses of the model,
\* whichever handler an address is given to
AnyAddresses == BitcoinAddresses \cup EvmAddresses

PossibleIdentities ==
    UNION { CallIdentities(c, a) : c \in {"bitcoin"} \cup EvmChains, a \in AnyAddresses }

\* an upstream list names no token or inscription twice
ListsEachOnce(items) ==
    \A i, j \in 1..Len(items) :
        (i # j /\ items[i] # NullItem) => items[i] # items[j]

UpstreamListsEachOnce ==
    \A k \in 1..Len(answers) :
        "items" \in DOMAIN answers[k].response => ListsEachOnce(answers[k].response.items)

\* C19: asset ids are a function of (chain, wallet address, sub-identifier)
\* and are globally unique: an asset this call can produce and an asset any
\* handler can produce for any address have the same id string exactly when
\* they agree on chain, wallet address and sub-identifier; every asset the
\* call returns is one of the former, and when each upstream lists each token
\* or inscription once no two assets of the returned list share an id.
C19_AssetIdsAreUnique ==
    /\ pc = "start"
           => \A x \in CallIdentities(chain, address) : \A y \in PossibleIdentities :
                  (x.id = y.id) <=> (x.chain = y.chain
                                       /\ x.walletAddress = y.walletAddress
                                       /\ x.sub = y.sub)
    /\ pc = "done"
           => /\ \A i \in 1..Len(result.data) :
                     Identity(result.data[i]) \in CallIdentities(chain, address)
              /\ UpstreamListsEachOnce
                     => \A i, j \in 1..Len(result.data) :
                            i # j => IdString(result.data[i].id) # IdString(result.data[j].id)

\* an Ethereum call has returned the native coin, two tokens and two NFTs
C19_Witness ==
    /\ pc = "done" /\ chain = "ethereum"
    /\ UpstreamListsEachOnce
    /\ Len(result.data) = 5
    /\ result.data[1].type = "native"
    /\ result.data[3].type = "token"
    /\ result.data[5].type = "nft"

-----------------------------------------------------------------------------
(* Properties of the balance conversion of getBTCBalance.                  *)

IsDigits(str) == str # <<>> /\ \A i \in 1..Len(str) : str[i] \in Digits

DigitValue(ch) == CHOOSE d \in 0..9 : DigitChar(d) = ch

\* the number a string of decimal digits denotes
RECURSIVE DecimalValue(_)
DecimalValue(str) ==
    IF str = <<>> THEN 0
    ELSE 10 * DecimalValue(SubSeq(str, 1, Len(str) - 1)) + DigitValue(str[Len(str)])

\* an integer written without sign and without leading zeros
IsIntegerString(str) == IsDigits(str) /\ (Len(str) > 1 => str[1] # "0")

\* str is n hundred-millionths written as a decimal number with exactly 8
\* fractional digits
IsAmountWith8Decimals(str, n) ==
    /\ Len(str) >= 10
    /\ str[Len(str) - 8] = "."
    /\ LET whole == SubSeq(str, 1, Len(str) - 9)
           frac == SubSeq(str, Len(str) - 7, Len(str))
       IN  /\ IsIntegerString(whole)
           /\ IsDigits(frac)
           /\ DecimalValue(whole) * 100000000 + DecimalValue(frac) = n

\* the answers of the balance endpoint that carry both sums
BalanceAnswers ==
    SelectSeq(answers, LAMBDA a : /\ a.request.to = "blockstream"
                                  /\ a.response.kind = "json"
                                  /\ a.response.shape = "stats")

\* C20: for funded and spent output sums with funded >= spent, getBTCBalance
\* reports balance as the integer string of (funded - spent) satoshis and
\* balanceFormatted as that amount divided by 10^8 with exactly 8 fractional
\* digits; funded = 150,000,000 and spent = 50,000,000 give "100000000" and
\* "1.00000000".
C20_BalanceConversion ==
    \A k \in 1..Len(BalanceAnswers) :
        LET funded == BalanceAnswers[k].response.funded
            spent == BalanceAnswers[k].response.spent
        IN  funded >= spent
                => /\ nativeResult.success
                   /\ IsIntegerString(nativeResult.data.balance)
                   /\ DecimalValue(nativeResult.data.balance) = funded - spent
                   /\ IsAmountWith8Decimals(nativeResult.data.balanceFormatted,
                                            funded - spent)
                   /\ (funded = 150000000 /\ spent = 50000000)
                          => /\ nativeResult.data.balance =
                                    <<"1", "0", "0", "0", "0", "0", "0", "0", "0">>
                             /\ nativeResult.data.balanceFormatted =
                                    <<"1", ".", "0", "0", "0", "0", "0", "0", "0", "0">>

\* getBTCBalance has returned for funded = 150,000,000 and spent =
\* 149,999,999: one satoshi, "0.00000001"
C20_Witness ==
    /\ Len(BalanceAnswers) = 1
    /\ BalanceAnswers[1].response.funded = 150000000
    /\ BalanceAnswers[1].response.spent = 149999999
    /\ nativeResult.success
    /\ nativeResult.data.balance = <<"1">>
    /\ nativeResult.data.balanceFormatted =
           <<"0", ".", "0", "0", "0", "0", "0", "0", "0", "1">>

-----------------------------------------------------------------------------
(* Properties of the token assets of getTokenBalances.                     *)

\* the position of the decimal point of a formatted amount
PointAt(str) == CHOOSE i \in 1..Len(str) : str[i] = "."

RECURSIVE StripLeadingZeros(_)
StripLeadingZeros(str) ==
    IF Len(str) > 1 /\ str[1] = "0" THEN StripLeadingZeros(Tail(str)) ELSE str

\* the digits of  str x 10^d  for a decimal number str with at most d
\* fractional digits: the point is moved d places to the right
ScaledBy10ToThe(str, d) ==
    LET whole == SubSeq(str, 1, PointAt(str) - 1)
        frac == SubSeq(str, PointAt(str) + 1, Len(str))
    IN  StripLeadingZeros(whole \o frac \o [i \in 1..(d - Len(frac)) |-> "0"])

\* str is a decimal number with one point, digits on both sides of it and at
\* most d fractional digits
IsDecimalNumber(str, d) ==
    /\ Cardinality({ i \in 1..Len(str) : str[i] = "." }) = 1
    /\ IsDigits(SubSeq(str, 1, PointAt(str) - 1))
    /\ IsDigits(SubSeq(str, PointAt(str) + 1, Len(str)))
    /\ Len(str) - PointAt(str) <= d

\* C21: a token asset's balance is the raw balance the contract answered,
\* written as an integer, and its balanceFormatted is a decimal number that
\* times 10^decimals is exactly that balance; 1500000 at 6 decimals is "1.5".
C21_TokenBalanceIsExact ==
    (calc.fn = "getTokenBalances" /\ calc.returned)
        => \A i \in 1..Len(calc.value.assets) :
              LET a == calc.value.assets[i]
              IN  /\ a.type = "token"
                  /\ IsIntegerString(a.balance)
                  /\ DecimalValue(a.balance) = calc.arg.balance
                  /\ IsDecimalNumber(a.balanceFormatted, a.decimals)
                  /\ ScaledBy10ToThe(a.balanceFormatted, a.decimals) = a.balance
                  /\ (calc.arg.balance = 1500000 /\ a.decimals = 6)
                         => a.balanceFormatted = <<"1", ".", "5">>

\* the token pass has built an asset for a balance that needs all of the
\* token's 8 decimals
C21_Witness ==
    /\ calc.fn = "getTokenBalances" /\ calc.returned
    /\ calc.arg.balance = 123456789
    /\ Len(calc.value.assets) = 1
    /\ calc.value.assets[1].decimals = 8
    /\ calc.value.assets[1].balanceFormatted = <<"1", ".", "2", "3", "4", "5", "6", "7",
                                                 "8", "9">>

-----------------------------------------------------------------------------
(* Properties of getAddressType.                                           *)

\* the format whose pattern an address belongs to, the narrower bc1p pattern
\* before the bc1 pattern that contains it
PatternFormat(s) ==
    IF LegacyPattern(s) THEN "Legacy"
    ELSE IF TaprootPattern(s) THEN "Taproot"
    ELSE IF SegwitPattern(s) THEN "SegWit"
    ELSE "Unknown"

\* C22: getAddressType reports the format whose pattern the address belongs
\* to: Legacy for a 1/3 base58 address, SegWit for a bc1 address of
\* non-taproot length, Taproot for a bc1p address of the taproot length, and
\* Unknown for an address that matches no pattern.
C22_AddressTypeIsPatternFormat ==
    (calc.fn = "getAddressType" /\ calc.returned)
        => calc.value.type = PatternFormat(calc.arg.address)

-----------------------------------------------------------------------------
(* Properties of the classification of inscriptions.                       *)

HiroParsed == calc.fn = "parseHiroOrdinals" /\ calc.returned

\* the tags, in the priority order of their rules
RuleTags ==
    <<"quantum-cats", "nodemonkes", "bitcoin-puppets", "taproot-wizards",
      "interactive", "text", "svg", "standard">>

\* rule k as a title / collection-id substring or a content-type family
SubstringRule(k, i) ==
    LET content == toLowerCase(i.content_type)
        title == toLowerCase(i.title)
    IN  CASE k = 1 -> \/ includes(title, <<"q", "u", "a", "n", "t", "u", "m", " ", "c",
                                           "a", "t">>)
                      \/ includes(i.collection_id, <<"q", "u", "a", "n", "t", "u", "m",
                                                     "-", "c", "a", "t", "s">>)
          [] k = 2 -> \/ includes(title, <<"n", "o", "d", "e", "m", "o", "n", "k", "e">>)
                      \/ includes(i.collection_id, <<"n", "o", "d", "e", "m", "o", "n",
                                                     "k", "e", "s">>)
          [] k = 3 -> \/ includes(title, <<"b", "i", "t", "c", "o", "i", "n", " ", "p",
                                           "u", "p", "p", "e", "t">>)
                      \/ includes(i.collection_id, <<"b", "i", "t", "c", "o", "i", "n",
                                                     "-", "p", "u", "p", "p", "e", "t", "s">>)
          [] k = 4 -> \/ includes(title, <<"t", "a", "p", "r", "o", "o", "t", " ", "w",
                                           "i", "z", "a", "r", "d">>)
                      \/ includes(i.collection_id, <<"t", "a", "p", "r", "o", "o", "t",
                                                     "-", "w", "i", "z", "a", "r", "d", "s">>)
          [] k = 5 -> includes(content, <<"h", "t", "m", "l">>) \/ includes(content, <<"j",
                                                                                       "a",
                                                                                       "v",
                                                                                       "a",
                                                                                       "s",
                                                                                       "c",
                                                                                       "r",
                                                                                       "i",
                                                                                       "p",
                                                                                       "t">>)
          [] k = 6 -> includes(content, <<"t", "e", "x", "t">>)
          [] k = 7 -> includes(content, <<"s", "v", "g">>)
          [] OTHER -> TRUE

\* the same rules, the quantum-cats rule also matching a content type that
\* contains html together with a title that contains "cat"
HeuristicRule(k, i) ==
    \/ SubstringRule(k, i)
    \/ /\ k = 1
       /\ includes(toLowerCase(i.content_type), <<"h", "t", "m", "l">>)
       /\ includes(toLowerCase(i.title), <<"c", "a", "t">>)

\* the tag of the first rule that matches i
FirstMatch(Rule(_, _), i) ==
    RuleTags[CHOOSE k \in 1..8 : Rule(k, i) /\ \A j \in 1..(k - 1) : ~Rule(j, i)]

RelayReference(id) == Url("", "", <<"/content/", id>>)

\* C25: an ordinal asset tagged interactive, text or svg has no image URL,
\* and one tagged standard has the ContentRelay reference of its inscription
\* id as image URL.
C25_ImageFollowsTag ==
    HiroParsed
        => /\ calc.value.specialType \in {"interactive", "text", "svg"}
               => calc.value.asset.imageUrl = NoUrl
           /\ calc.value.specialType = "standard"
               => calc.value.asset.imageUrl = RelayReference(calc.arg.inscription.id)

\* the raw inscription of the primary indexer with the content type, title
\* and collection of a token of the secondary indexer
SameInscription(token) ==
    [id |-> token.id, number |-> token.inscriptionNumber, title |-> token.name,
     content_type |-> token.contentType, collection_id |-> token.collectionSymbol,
     content_url |-> NoUrl, preview_url |-> NoUrl]

\* C26: an asset built from a token of the secondary indexer has the
\* fallback name and the fallback collection label of the asset built from
\* the same inscription by the parser of the primary indexer.
C26_SecondaryFallbacksFollowTag ==
    (calc.fn = "parseMagicEdenOrdinals" /\ calc.returned)
        => LET token == calc.arg.token
               primary == HiroOrdinalAsset(CalcWallet, SameInscription(token))
           IN  /\ token.name = <<>>
                      => calc.value.asset.name = primary.name
               /\ token.collectionSymbol = <<>>
                      => calc.value.asset.collectionName = primary.collectionName

\* C27: every ordinal asset handed to AssetGrid is in the NFT grid and not in
\* the plain list.
C27_OrdinalsInNftGrid ==
    (calc.fn = "AssetGrid" /\ calc.returned)
        => \A k \in 1..Len(calc.arg.assets) :
              LET a == calc.arg.assets[k]
              IN  a.type = "ordinal"
                      => /\ \E n \in 1..Len(calc.value.nftAssets) :
                                calc.value.nftAssets[n] = a
                         /\ ~\E n \in 1..Len(calc.value.regularAssets) :
                                calc.value.regularAssets[n] = a

-----------------------------------------------------------------------------
(* Properties of overlapping fetches and of the error note of the page.    *)

\* no fetch of chain c is in flight
Settled(c) == ~\E f \in inflight : f.chain = c

\* C28: once no fetch of a chain is in flight, the chain's displayed list is
\* the list delivered by the fetch of that chain that was started last,
\* whatever the order in which the fetches completed.
C28_LastStartedFetchIsDisplayed ==
    \A c \in Chains :
        (Settled(c) /\ newest[c].outcome = "success")
            => PageAssets(c) = newest[c].data

\* a fetch of chain c ends in this step
Ends(c) == \E f \in inflight : f.chain = c /\ inflight' = inflight \ {f}

\* C29: a fetch that ends with success leaves the error note as it is, and
\* the error note is cleared only by the start of fetchAllChains; so the
\* note of a failed Bitcoin fetch is still shown after a later Bitcoin fetch
\* made from its own button has succeeded.
C29_SuccessKeepsErrorNote ==
    [][ /\ \A c \in Chains :
              (Ends(c) /\ history'[c].outcome = "success") => error' = error
        /\ (error # <<>> /\ error' = <<>>) => (~isLoading /\ isLoading')
      ]_vars

\* two Bitcoin fetches were made from the button; the second has ended last
\* and with success, and the note of the failed first one is shown
C29_Witness ==
    /\ started = 2 /\ inflight = {}
    /\ history["ethereum"].outcome = "none" /\ history["pulsechain"].outcome = "none"
    /\ history["bitcoin"].outcome = "success" /\ ~history["bitcoin"].all
    /\ ~isLoading
    /\ error = <<"Bitcoin error: ", "Error">>

-----------------------------------------------------------------------------
(* Properties of the provider key of EthereumHandler.                      *)

\* C30: getNFTs returns an empty success without a provider request exactly
\* when RPC_URL is the public node: for an absent key and for the
\* placeholder value alike.
C30_KeyDecidedConsistently ==
    (chain = "ethereum" /\ NftReturned)
        => ((~NftRequested /\ extraResult = Success(<<>>))
               <=> RPC_URL(apiKey).host = "ethereum.publicnode.com")

====
